---- MODULE Spec2Model ----
(***************************************************************************)
(* Model of threadline-cli: the glob matcher, the diff file filter and the *)
(* concurrent threadline dispatcher (processors/expert.ts and              *)
(* processors/single-expert.ts), and the git diff resolvers (git/diff.ts,  *)
(* git/local.ts).                                                          *)
(*                                                                         *)
(* Strings are sequences of one-character strings, and a text is the       *)
(* sequence of its lines (what text.split('\n') returns), so that the      *)
(* regular expressions of the source are computed and not assumed.         *)
(***************************************************************************)
EXTENDS Integers, Sequences, FiniteSets, TLC

\* ------------------------------------------------------------------ bounds
NumThreadlines == 2
TickMs == 40000
MaxTime == 60000

\* ------------------------------------------------------- program constants
EXPERT_TIMEOUT == 40000

\* ------------------------------------------------------------------- state
\* The dispatcher (processThreadlines):
VARIABLES
  threadlines,   \* request.threadlines: the rule documents' pattern lists
  inputId,       \* which (files, diff) pair the request carries
  phase,         \* "idle", "waiting" (await Promise.allSettled), "done", "aborted"
  actual,        \* per rule: the promise processThreadline returned
  thenDone,      \* per rule: the reaction to that promise has run
  timer,         \* per rule: "none", "armed", "fired", "cleared"
  resolved,      \* per rule: the closure's resolved flag
  race,          \* per rule: the Promise.race promise
  sent,          \* per rule: whether the provider was called, and on which diff
  settleOrder,   \* the rules in the order their race promises settled
  timeoutLogged, \* rules for which "Request timed out" was logged
  results,       \* response.results
  metadata,      \* response.metadata
  now,           \* milliseconds since processThreadlines was called
  finishedAt     \* the time processThreadlines returned

dvars == <<threadlines, inputId, phase, actual, thenDone, timer, resolved, race,
           sent, settleOrder, timeoutLogged, results, metadata, now, finishedAt>>

\* The diff resolvers (getPRDiff, getCommitDiff, getDiff):
VARIABLES
  ctx,        \* review context: "pr", "commit", "local", "localLegacy"
  repo,       \* the repository and its remote, as the git commands see them
  pc,         \* the resolver's position
  parentSha,  \* getCommitDiff's parentSha
  cmdLog,     \* the git commands run so far, in order
  warnings,   \* what globalLogger.warn printed
  outcome,    \* "running", "returned", "threw"
  result,     \* the GitDiffResult returned, with the comparison that produced it
  error       \* the error thrown

rvars == <<ctx, repo, pc, parentSha, cmdLog, warnings, outcome, result, error>>

\* The command (checkCommand):
VARIABLES
  exit        \* process.exit: whether it was called, its code, what was printed last

\* The diff functions, applied to one diff.
VARIABLES
  given,      \* the diff's file sections, as they were written
  filterCall, \* the last filterDiffByFiles call: its file list and what came back
  slims,      \* per context budget: the createSlimDiff result, once computed
  reslim,     \* createSlimDiff applied to one of its own results
  rebuilt     \* the diff as bytes, read into lines and file sections and joined again

fvars == <<given, filterCall, slims, reslim, rebuilt>>

\* One provider call (callOpenAIAPI, callBedrockAPI) under the dispatcher's race.
VARIABLES
  cNow,       \* the clock of the call, in ms since it started
  alive,      \* the process has not exited
  fetchState, \* "idle", "pending", "responded", "failed", "aborted"
  abortTimer, \* the call's setTimeout(() => controller.abort()): "none", "armed", "cleared", "fired"
  taskTimer,  \* the dispatcher's timeout timer for the rule
  cRace       \* the rule's race: "pending", "result", "timeout"

cvars == <<cNow, alive, fetchState, abortTimer, taskTimer, cRace>>

\* One run of checkCommand, its awaited calls reduced to what they return.
VARIABLES
  config,     \* .threadlinerc and the environment variables the run reads
  step,       \* the await checkCommand is suspended at
  work        \* the work begun so far: "diff", "evaluate", "sync"

kvars == <<config, step, work>>

vars == <<dvars, rvars, exit, fvars, cvars, kvars>>

\* ----------------------------------------------------------------- strings
P_a == <<"a", ".", "t", "s">>
P_b == <<"b", ".", "t", "s">>
P_src_a == <<"s", "r", "c", "/", "a", ".", "t", "s">>
P_z == <<"z", ".", "t", "s">>

G_dstar_a == <<"*", "*", "/", "a", ".", "t", "s">>
G_star_ts == <<"*", ".", "t", "s">>
G_star_md == <<"*", ".", "m", "d">>
G_paren == <<"(", "x">>

S_diffGit == <<"d", "i", "f", "f", " ", "-", "-", "g", "i", "t", " ">>
S_diffGitA == S_diffGit \o <<"a", "/">>
S_spB == <<" ", "b", "/">>
S_hunk == <<"@", "@", " ", "-", "1", " ", "+", "1", " ", "@", "@">>
S_minus == <<"-", "x">>
S_plus == <<"+", "y">>
S_ctx == <<" ", "c">>

Min(a, b) == IF a < b THEN a ELSE b

StartsWith(s, p) == Len(s) >= Len(p) /\ SubSeq(s, 1, Len(p)) = p

\* String.prototype.trim over the model's alphabet (the blank is the only
\* whitespace character in it).
RECURSIVE TrimLeft(_)
TrimLeft(s) == IF s # <<>> /\ Head(s) = " " THEN TrimLeft(Tail(s)) ELSE s

RECURSIVE TrimRight(_)
TrimRight(s) ==
  IF s # <<>> /\ s[Len(s)] = " " THEN TrimRight(SubSeq(s, 1, Len(s) - 1)) ELSE s

Trim(s) == TrimRight(TrimLeft(s))

\* A text is the sequence of its lines; the empty string is one empty line.
EmptyText == << <<>> >>

\* Array.prototype.join('\n') followed by split('\n'): no line gives ''.
JoinLines(ls) == IF ls = <<>> THEN EmptyText ELSE ls

\* !text || text.trim() === ''
IsBlankText(t) == \A i \in 1..Len(t) : Trim(t[i]) = <<>>

SeqToSet(s) == {s[i] : i \in 1..Len(s)}

\* -------------------------------------------------------------- glob match
\* pattern.replace(/\*\*/g, DOUBLE_STAR).replace(/\*/g, '[^/]*')
\*        .replace(DOUBLE_STAR, '.*').replace(/\?/g, '.')
\* read from the left; a regular-expression token is "dstar" (.*),
\* "star" ([^/]*), "any" (.) or a literal character. The dot of the pattern
\* is not escaped, so it is the regular expression's dot.
RECURSIVE GlobTokens(_, _)
GlobTokens(p, i) ==
  IF i > Len(p) THEN <<>>
  ELSE IF p[i] = "*" /\ i < Len(p) /\ p[i + 1] = "*"
    THEN <<"dstar">> \o GlobTokens(p, i + 2)
  ELSE IF p[i] = "*" THEN <<"star">> \o GlobTokens(p, i + 1)
  ELSE IF p[i] = "?" \/ p[i] = "." THEN <<"any">> \o GlobTokens(p, i + 1)
  ELSE <<p[i]>> \o GlobTokens(p, i + 1)

\* new RegExp(...) throws a SyntaxError on an unterminated group.
RegexThrows(p) ==
  Cardinality({i \in 1..Len(p) : p[i] = "("}) # Cardinality({i \in 1..Len(p) : p[i] = ")"})

\* regex.test(s) for ^tokens$, matching tokens t[i..] against s[j..].
RECURSIVE RegexMatch(_, _, _, _)
RegexMatch(t, s, i, j) ==
  IF i > Len(t) THEN j > Len(s)
  ELSE IF t[i] = "dstar"
    THEN RegexMatch(t, s, i + 1, j) \/ (j <= Len(s) /\ RegexMatch(t, s, i, j + 1))
  ELSE IF t[i] = "star"
    THEN RegexMatch(t, s, i + 1, j)
         \/ (j <= Len(s) /\ s[j] # "/" /\ RegexMatch(t, s, i, j + 1))
  ELSE IF t[i] = "any" THEN j <= Len(s) /\ RegexMatch(t, s, i + 1, j + 1)
  ELSE j <= Len(s) /\ s[j] = t[i] /\ RegexMatch(t, s, i + 1, j + 1)

matchesPattern(filePath, pattern) ==
  RegexMatch(GlobTokens(pattern, 1), filePath, 1, 1)

\* threadline.patterns.some(pattern => matchesPattern(file, pattern)):
\* the patterns are tried in order until one matches.
FileMatches(file, patterns) ==
  \E k \in 1..Len(patterns) : matchesPattern(file, patterns[k])

\* The same scan throws when it reaches a pattern that does not compile.
FileThrows(file, patterns) ==
  \E k \in 1..Len(patterns) :
    /\ RegexThrows(patterns[k])
    /\ \A j \in 1..(k - 1) : ~matchesPattern(file, patterns[j])

\* files.filter(...) of processThreadline
RelevantFiles(files, patterns) ==
  SelectSeq(files, LAMBDA f : FileMatches(f, patterns))

RelevantThrows(files, patterns) ==
  \E n \in 1..Len(files) : FileThrows(files[n], patterns)

\* ---------------------------------------------------------- diff file filter
\* line.match(/^diff --git a\/(.+?) b\/(.+?)$/): the second group, or <<>>
\* when the line does not match. The first group is lazy: it ends at the
\* first " b/" that leaves a non-empty rest.
HeaderSplits(rest) ==
  {k \in 1..Len(rest) :
     /\ k + 4 <= Len(rest)
     /\ SubSeq(rest, k + 1, k + 3) = S_spB}

HeaderPathB(line) ==
  IF ~StartsWith(line, S_diffGitA) THEN <<>>
  ELSE LET rest == SubSeq(line, Len(S_diffGitA) + 1, Len(line))
           ks == HeaderSplits(rest)
       IN IF ks = {} THEN <<>>
          ELSE LET k == CHOOSE x \in ks : \A y \in ks : x <= y
               IN SubSeq(rest, k + 4, Len(rest))

\* The loop of filterDiffByFiles over lines[i..], with the current section's
\* inclusion flag.
RECURSIVE FilterLoop(_, _, _, _)
FilterLoop(lines, i, wanted, inFileSection) ==
  IF i > Len(lines) THEN <<>>
  ELSE LET pathB == HeaderPathB(lines[i])
       IN IF pathB # <<>>
            THEN IF pathB \in wanted
                   THEN <<lines[i]>> \o FilterLoop(lines, i + 1, wanted, TRUE)
                   ELSE FilterLoop(lines, i + 1, wanted, FALSE)
            ELSE IF inFileSection
                   THEN <<lines[i]>> \o FilterLoop(lines, i + 1, wanted, TRUE)
                   ELSE FilterLoop(lines, i + 1, wanted, FALSE)

filterDiffByFiles(diff, filesToInclude) ==
  IF IsBlankText(diff) THEN EmptyText
  ELSE IF filesToInclude = <<>> THEN EmptyText
  ELSE JoinLines(FilterLoop(diff, 1, {Trim(f) : f \in SeqToSet(filesToInclude)}, FALSE))

\* The Set of extractFilesFromDiff keeps first insertions in order.
RECURSIVE ExtractLoop(_, _, _)
ExtractLoop(lines, i, seen) ==
  IF i > Len(lines) THEN <<>>
  ELSE LET pathB == HeaderPathB(lines[i])
       IN IF pathB # <<>> /\ pathB \notin seen
            THEN <<pathB>> \o ExtractLoop(lines, i + 1, seen \cup {pathB})
            ELSE ExtractLoop(lines, i + 1, seen)

extractFilesFromDiff(diff) == ExtractLoop(diff, 1, {})

\* ------------------------------------------------- files read as a diff
S_devNull == <<"-", "-", "-", " ", "/", "d", "e", "v", "/", "n", "u", "l", "l">>
S_newHunk == <<"@", "@", " ", "-", "0", ",", "0", " ", "+", "1", ",">>
S_hunkEnd == <<" ", "@", "@">>
S_plusPath == <<"+", "+", "+", " ">>

RECURSIVE Flatten(_)
Flatten(ss) == IF ss = <<>> THEN <<>> ELSE Head(ss) \o Flatten(Tail(ss))

\* String(n) for the small numbers of the model.
Digits(n) == <<"0", "1", "2", "3", "4", "5", "6", "7", "8", "9">>[n + 1]
NumberString(n) == IF n < 10 THEN <<Digits(n)>> ELSE <<Digits(n \div 10), Digits(n % 10)>>

\* fs.readFileSync(fullPath, 'utf-8').split('\n') of a file that is read
FileContentLines(f) == << <<"x">>, <<>> >>

\* The files glob finds in the folder of --folder, by number.
FolderFile(k) == <<"f">> \o NumberString(k)

\* getFolderContent's artificial diff of one file: every line an addition.
FolderFileDiff(f) ==
  LET lines == FileContentLines(f)
  IN <<S_devNull, S_plusPath \o f, S_newHunk \o NumberString(Len(lines)) \o S_hunkEnd>>
     \o [n \in 1..Len(lines) |-> <<"+">> \o lines[n]]

\* getFolderContent's result when it has read the files filePaths.
FolderResult(filePaths) ==
  [diff |-> JoinLines(Flatten([k \in 1..Len(filePaths) |-> FolderFileDiff(filePaths[k])])),
   changedFiles |-> filePaths]

\* ---------------------------------------------------------------- slim diff
S_at == <<"@", "@">>
S_atMinus == <<"@", "@", " ", "-">>
S_spPlus == <<" ", "+">>
S_spAt == <<" ", "@", "@">>

IsDigit(ch) == ch \in {"0", "1", "2", "3", "4", "5", "6", "7", "8", "9"}

\* The length of the run of digits of s that starts at index i (\d+).
RECURSIVE DigitsRun(_, _)
DigitsRun(s, i) ==
  IF i <= Len(s) /\ IsDigit(s[i]) THEN 1 + DigitsRun(s, i + 1) ELSE 0

\* parseInt(digits, 10)
RECURSIVE ParseInt(_)
ParseInt(ds) ==
  IF ds = <<>> THEN 0
  ELSE 10 * ParseInt(SubSeq(ds, 1, Len(ds) - 1))
       + (CHOOSE n \in 0..9 : Digits(n) = ds[Len(ds)])

\* The index after the optional group (?:,\d+)? read at index i.
AfterCount(s, i) ==
  IF i <= Len(s) /\ s[i] = "," /\ DigitsRun(s, i + 1) > 0
    THEN i + 1 + DigitsRun(s, i + 1)
    ELSE i

\* /@@ -(\d+)(?:,\d+)? \+(\d+)(?:,\d+)? @@(.*)?/ tried at index k of the line.
HeaderMatchAt(s, k) ==
  LET a  == k + Len(S_atMinus)
      n1 == DigitsRun(s, a)
      b  == AfterCount(s, a + n1)
      c  == b + Len(S_spPlus)
      n2 == DigitsRun(s, c)
      d  == AfterCount(s, c + n2)
  IN [ok |-> /\ SubSeq(s, k, a - 1) = S_atMinus
             /\ n1 > 0
             /\ SubSeq(s, b, c - 1) = S_spPlus
             /\ n2 > 0
             /\ SubSeq(s, d, d + Len(S_spAt) - 1) = S_spAt,
      oldStart |-> ParseInt(SubSeq(s, a, a + n1 - 1)),
      newStart |-> ParseInt(SubSeq(s, c, c + n2 - 1)),
      hunkTitle |-> SubSeq(s, d + Len(S_spAt), Len(s))]

\* line.match(...): the leftmost index at which the expression matches.
HunkHeaderMatch(line) ==
  LET ks == {k \in 1..Len(line) : k + Len(S_atMinus) - 1 <= Len(line)
                                   /\ SubSeq(line, k, k + Len(S_atMinus) - 1) = S_atMinus
                                   /\ HeaderMatchAt(line, k).ok}
  IN IF ks = {} THEN [ok |-> FALSE, oldStart |-> 0, newStart |-> 0, hunkTitle |-> <<>>]
     ELSE HeaderMatchAt(line, CHOOSE k \in ks : \A y \in ks : k <= y)

\* Only an added line counts as a change.
IsChangeAddedOnly(hunkLine) == hunkLine # <<>> /\ Head(hunkLine) = "+"

\* hunkLine.startsWith('+') || hunkLine.startsWith('-')
IsChange(hunkLine) == hunkLine # <<>> /\ Head(hunkLine) \in {"+", "-"}

\* The hunk is kept whatever its lines are.
NoChangesNever(changeIndices) == FALSE

\* changeIndices.length === 0
NoChanges(changeIndices) == changeIndices = {}

\* Every change, and the lines farther than contextLines from it.
KeepLinesBeyond(changeIndices, n, contextLines) ==
  {j \in 1..n : \E ch \in changeIndices :
     j = ch \/ j - ch > contextLines \/ ch - j > contextLines}

\* keepLines: every change, and contextLines lines before and after it that
\* are inside the hunk.
KeepLines(changeIndices, n, contextLines) ==
  {j \in 1..n : \E ch \in changeIndices :
     (j <= ch /\ ch - j <= contextLines) \/ (j >= ch /\ j - ch <= contextLines)}

\* Every line counted for the old side.
OldCountAll(ls, n) == n

\* The number of lines among ls[1..n] that count for the old side (not '+')
\* and for the new side (not '-').
OldCount(ls, n) == Cardinality({j \in 1..n : ~StartsWith(ls[j], <<"+">>)})
NewCount(ls, n) == Cardinality({j \in 1..n : ~StartsWith(ls[j], <<"-">>)})

\* The title set off from the header by one more blank.
SlimHeaderSpacedTitle(newOldStart, oldLineCount, newNewStart, newLineCount, hunkTitle) ==
  S_atMinus \o NumberString(newOldStart) \o <<",">> \o NumberString(oldLineCount)
    \o S_spPlus \o NumberString(newNewStart) \o <<",">> \o NumberString(newLineCount)
    \o S_spAt \o <<" ">> \o hunkTitle

\* `@@ -${newOldStart},${oldLineCount} +${newNewStart},${newLineCount} @@${hunkTitle}`
SlimHeader(newOldStart, oldLineCount, newNewStart, newLineCount, hunkTitle) ==
  S_atMinus \o NumberString(newOldStart) \o <<",">> \o NumberString(oldLineCount)
    \o S_spPlus \o NumberString(newNewStart) \o <<",">> \o NumberString(newLineCount)
    \o S_spAt \o hunkTitle

\* One hunk of createSlimDiff: its header line and the lines after it up to
\* the next hunk or file.
SlimHunk(line, hunkLines, contextLines) ==
  LET changeIndices == {j \in 1..Len(hunkLines) : IsChange(hunkLines[j])}
  IN IF NoChanges(changeIndices) THEN <<>>
     ELSE
       LET keepLines == KeepLines(changeIndices, Len(hunkLines), contextLines)
           slimHunkLines == SelectSeq([j \in 1..Len(hunkLines) |->
                                         IF j \in keepLines THEN <<hunkLines[j]>> ELSE <<>>],
                                      LAMBDA x : x # <<>>)
           slim == [j \in 1..Len(slimHunkLines) |-> slimHunkLines[j][1]]
           m == HunkHeaderMatch(line)
           \* sortedKeepIndices[0]; when nothing is kept it is undefined and
           \* the loop that counts the skipped lines does not run.
           firstKeptIdx == IF keepLines = {} THEN 1
                           ELSE CHOOSE j \in keepLines : \A y \in keepLines : j <= y
           newOldStart == m.oldStart + OldCount(hunkLines, firstKeptIdx - 1)
           newNewStart == m.newStart + NewCount(hunkLines, firstKeptIdx - 1)
       IN IF ~m.ok THEN <<>>
          ELSE << SlimHeader(newOldStart, OldCount(slim, Len(slim)),
                             newNewStart, NewCount(slim, Len(slim)), m.hunkTitle) >>
               \o slim

\* The first index from i on whose line starts with one of the stops, or
\* Len(lines) + 1.
ScanEnd(lines, i, stops) ==
  LET ks == {k \in i..Len(lines) : \E p \in stops : StartsWith(lines[k], p)}
  IN IF ks = {} THEN Len(lines) + 1 ELSE CHOOSE k \in ks : \A y \in ks : k <= y

\* The while loop of createSlimDiff from lines[i] on.
RECURSIVE SlimLoop(_, _, _)
SlimLoop(lines, i, contextLines) ==
  IF i > Len(lines) THEN <<>>
  ELSE IF StartsWith(lines[i], S_diffGit)
    THEN LET j == ScanEnd(lines, i + 1, {S_at})
         IN SubSeq(lines, i, j - 1) \o SlimLoop(lines, j, contextLines)
  ELSE IF StartsWith(lines[i], S_at)
    THEN LET j == ScanEnd(lines, i + 1, {S_at, S_diffGit})
         IN SlimHunk(lines[i], SubSeq(lines, i + 1, j - 1), contextLines)
            \o SlimLoop(lines, j, contextLines)
  ELSE SlimLoop(lines, i + 1, contextLines)

createSlimDiff(fullDiff, contextLines) ==
  IF IsBlankText(fullDiff) THEN EmptyText
  ELSE JoinLines(SlimLoop(fullDiff, 1, contextLines))

\* ------------------------------------------------------------- the command
MAX_CHANGED_FILES == 20

\* process.exit was not called; said is what the command printed last.
NotExited == [done |-> FALSE, code |-> 0, said |-> ""]
Exited(code, said) == [done |-> TRUE, code |-> code, said |-> said]

\* checkCommand between the resolver and processThreadlines: no changed
\* file, too many changed files, files without a content change, or on to
\* the dispatcher.
TooManyFiles(n) == n > MAX_CHANGED_FILES

CheckChanges(gitDiff) ==
  IF gitDiff.changedFiles = <<>> THEN Exited(0, "noChanges")
  ELSE IF TooManyFiles(Len(gitDiff.changedFiles)) THEN Exited(1, "tooMany")
  ELSE IF IsBlankText(gitDiff.diff) THEN Exited(0, "zeroDiff")
  ELSE [NotExited EXCEPT !.said = "running"]

\* ------------------------------------------------------------ the dispatcher
Rules == 1..NumThreadlines

ThreadlineIds == <<"t1", "t2", "t3", "t4">>

HeaderLine(p) == S_diffGitA \o p \o S_spB \o p

DiffOf(p, q) ==
  <<HeaderLine(p), S_hunk, S_minus, S_plus, HeaderLine(q), S_hunk, S_ctx, S_plus>>

\* The request's files and diff.
Inputs ==
  <<[files |-> <<P_a, P_b>>, diff |-> DiffOf(P_a, P_b)],
    [files |-> <<P_src_a, P_b>>, diff |-> DiffOf(P_src_a, P_b)],
    [files |-> FolderResult([k \in 1..(MAX_CHANGED_FILES + 1) |-> FolderFile(k)]).changedFiles,
     diff |-> FolderResult([k \in 1..(MAX_CHANGED_FILES + 1) |-> FolderFile(k)]).diff]>>

\* The pattern lists a rule document is drawn from.
RulePool == {<<G_dstar_a>>, <<G_star_ts>>, <<G_star_md>>, <<G_dstar_a, G_paren>>}

\* What the provider may answer: parsed.status ("" when absent) and
\* parsed.file_references.
ProviderAnswers ==
  {[status |-> "attention", refs |-> <<P_b, P_z>>],
   [status |-> "", refs |-> <<>>]}

\* The type a provider's error may carry: an API error type, or the word the
\* dispatcher uses for its own timeouts.
ProviderErrorTypes == {"server_error", "timeout"}

NoValue ==
  [expertId |-> "", status |-> "", errType |-> "", fileReferences |-> <<>>,
   relevantFiles |-> <<>>, filteredDiff |-> EmptyText, filesInFilteredDiff |-> <<>>]

Pending == [state |-> "pending", value |-> NoValue]
Fulfilled(v) == [state |-> "fulfilled", value |-> v]
Rejected == [state |-> "rejected", value |-> NoValue]

NotSent == [called |-> FALSE, files |-> <<>>, diff |-> EmptyText]

\* The result the timeout callback resolves with.
TimeoutResult(i) ==
  [NoValue EXCEPT !.expertId = ThreadlineIds[i], !.status = "error", !.errType = "timeout"]

\* The result pushed for a rejected promise (error without a type).
RejectedResult(i) ==
  [NoValue EXCEPT !.expertId = ThreadlineIds[i], !.status = "error", !.errType = ""]

\* processThreadline, no file matched.
NotRelevantResult(i) ==
  [NoValue EXCEPT !.expertId = ThreadlineIds[i], !.status = "not_relevant"]

\* relevantFiles.length === 0
NoFilesMatchSkipped(rel) == FALSE

NoFilesMatch(rel) == rel = <<>>

\* processThreadline up to its first await, for rule i.
RelevantOf(i) == RelevantFiles(Inputs[inputId].files, threadlines[i])
ThrowsOf(i) == RelevantThrows(Inputs[inputId].files, threadlines[i])
FilteredDiffOf(i) == filterDiffByFiles(Inputs[inputId].diff, RelevantOf(i))

SyncPart(i) ==
  IF ThrowsOf(i) THEN [promise |-> Rejected, sent |-> NotSent]
  ELSE IF NoFilesMatch(RelevantOf(i))
    THEN [promise |-> Fulfilled(NotRelevantResult(i)), sent |-> NotSent]
  ELSE [promise |-> Pending,
        sent |-> [called |-> TRUE,
                  files |-> extractFilesFromDiff(FilteredDiffOf(i)),
                  diff |-> FilteredDiffOf(i)]]

\* The references kept as the provider gave them.
ValidRefsUnfiltered(refs, files) == refs

\* parsed.file_references.filter(file => filesInFilteredDiff.includes(file))
ValidRefs(refs, files) == SelectSeq(refs, LAMBDA f : f \in SeqToSet(files))

\* processThreadline after the provider answered.
SuccessResult(i, st, refs) ==
  [expertId |-> ThreadlineIds[i],
   status |-> IF st = "" THEN "not_relevant" ELSE st,
   errType |-> "",
   fileReferences |-> ValidRefs(refs, sent[i].files),
   relevantFiles |-> RelevantOf(i),
   filteredDiff |-> sent[i].diff,
   filesInFilteredDiff |-> sent[i].files]

\* processThreadline's catch block: error.type is the type the provider's
\* error carries (apiError?.type || errorObj?.type).
ErrorResult(i, ty) ==
  [expertId |-> ThreadlineIds[i], status |-> "error", errType |-> ty,
   fileReferences |-> <<>>, relevantFiles |-> RelevantOf(i),
   filteredDiff |-> sent[i].diff, filesInFilteredDiff |-> sent[i].files]

\* A promise settles once: later resolutions are ignored.
SettleLastWins(cur, new) == new

Settle(cur, new) == IF cur.state = "pending" THEN new ELSE cur

\* if (!resolved) of the timeout callback
TimeoutCallbackActsInverted(flag) == flag

TimeoutCallbackActs(flag) == ~flag

\* Promise.all: rejects as soon as one promise rejects.
AwaitAllFailFast(r) ==
  [ready |-> (\E i \in Rules : r[i].state = "rejected")
             \/ (\A i \in Rules : r[i].state = "fulfilled"),
   threw |-> \E i \in Rules : r[i].state = "rejected"]

\* Promise.allSettled: resolves when every promise has settled.
AwaitAll(r) ==
  [ready |-> \A i \in Rules : r[i].state # "pending", threw |-> FALSE]

\* The results pushed in the order the promises settled.
ExpertResultsByCompletion(r) ==
  [k \in Rules |->
     LET i == settleOrder[k]
     IN IF r[i].state = "fulfilled" THEN r[i].value ELSE RejectedResult(i)]

\* The loop over results[i] / threadlines[i].
ExpertResults(r) ==
  [i \in Rules |-> IF r[i].state = "fulfilled" THEN r[i].value ELSE RejectedResult(i)]

\* The counts with every error counted as an error, timeouts included.
MetadataTimeoutsAsErrors(r) ==
  [totalThreadlines |-> NumThreadlines,
   completed |-> Cardinality({i \in Rules : r[i].state = "fulfilled" /\ r[i].value.status # "error"}),
   timedOut |-> 0,
   errors |-> Cardinality({i \in Rules : r[i].state = "rejected" \/ r[i].value.status = "error"})]

Metadata(r) ==
  [totalThreadlines |-> NumThreadlines,
   completed |-> Cardinality({i \in Rules : r[i].state = "fulfilled" /\ r[i].value.status # "error"}),
   timedOut |-> Cardinality({i \in Rules : r[i].state = "fulfilled" /\ r[i].value.status = "error"
                                            /\ r[i].value.errType = "timeout"}),
   errors |-> Cardinality({i \in Rules : r[i].state = "rejected"
                                          \/ (r[i].value.status = "error"
                                               /\ r[i].value.errType # "timeout")})]

NoMetadata == [totalThreadlines |-> 0, completed |-> 0, timedOut |-> 0, errors |-> 0]

InitDispatch ==
  /\ threadlines \in [Rules -> RulePool]
  /\ inputId \in 1..Len(Inputs)
  /\ phase = "idle"
  /\ actual = [i \in Rules |-> Pending]
  /\ thenDone = [i \in Rules |-> FALSE]
  /\ timer = [i \in Rules |-> "none"]
  /\ resolved = [i \in Rules |-> FALSE]
  /\ race = [i \in Rules |-> Pending]
  /\ sent = [i \in Rules |-> NotSent]
  /\ settleOrder = <<>>
  /\ timeoutLogged = {}
  /\ results = <<>>
  /\ metadata = NoMetadata
  /\ now = 0
  /\ finishedAt = 0

\* Reactions (microtasks) that run before the next timer or I/O callback.
ThenPending(i) == actual[i].state # "pending" /\ ~thenDone[i]
FinishPending == phase = "waiting" /\ AwaitAll(race).ready
NoMicrotask == (\A i \in Rules : ~ThenPending(i)) /\ ~FinishPending

\* checkCommand's tests on the diff it is about to hand to processThreadlines.
CheckRequest ==
  /\ phase = "idle" /\ exit = NotExited
  /\ exit' = CheckChanges([diff |-> Inputs[inputId].diff, changedFiles |-> Inputs[inputId].files])
  /\ UNCHANGED <<dvars, rvars, fvars, cvars, kvars>>

\* processThreadlines up to "await Promise.allSettled(promises)".
Dispatch ==
  /\ phase = "idle" /\ ~exit.done /\ exit.said = "running"
  /\ phase' = "waiting"
  /\ actual' = [i \in Rules |-> SyncPart(i).promise]
  /\ sent' = [i \in Rules |-> SyncPart(i).sent]
  /\ timer' = [i \in Rules |-> "armed"]
  /\ UNCHANGED <<threadlines, inputId, thenDone, resolved, race, settleOrder,
                 timeoutLogged, results, metadata, now, finishedAt>>
  /\ UNCHANGED <<rvars, exit, fvars, cvars, kvars>>

\* The .then(result => ...) callback of actualPromise, which then settles the race.
ThenFulfilled(i) ==
  /\ phase \in {"waiting", "done"} /\ ~exit.done
  /\ actual[i].state = "fulfilled" /\ ~thenDone[i]
  /\ thenDone' = [thenDone EXCEPT ![i] = TRUE]
  /\ resolved' = [resolved EXCEPT ![i] = TRUE]
  /\ timer' = [timer EXCEPT ![i] = IF @ = "armed" THEN "cleared" ELSE @]
  /\ race' = [race EXCEPT ![i] = Settle(@, Fulfilled(actual[i].value))]
  /\ settleOrder' = IF race[i].state = "pending" THEN Append(settleOrder, i) ELSE settleOrder
  /\ UNCHANGED <<threadlines, inputId, phase, actual, sent, timeoutLogged, results,
                 metadata, now, finishedAt>>
  /\ UNCHANGED <<rvars, exit, fvars, cvars, kvars>>

\* A rejected processThreadline skips the callback and rejects the race.
ThenRejected(i) ==
  /\ phase \in {"waiting", "done"} /\ ~exit.done
  /\ actual[i].state = "rejected" /\ ~thenDone[i]
  /\ thenDone' = [thenDone EXCEPT ![i] = TRUE]
  /\ race' = [race EXCEPT ![i] = Settle(@, Rejected)]
  /\ settleOrder' = IF race[i].state = "pending" THEN Append(settleOrder, i) ELSE settleOrder
  /\ UNCHANGED <<threadlines, inputId, phase, actual, timer, resolved, sent,
                 timeoutLogged, results, metadata, now, finishedAt>>
  /\ UNCHANGED <<rvars, exit, fvars, cvars, kvars>>

\* The provider answers rule i's call with a status and file references.
ProviderResponds(i, st, refs) ==
  /\ phase \in {"waiting", "done"} /\ ~exit.done /\ NoMicrotask
  /\ sent[i].called /\ actual[i].state = "pending"
  /\ actual' = [actual EXCEPT ![i] = Fulfilled(SuccessResult(i, st, refs))]
  /\ UNCHANGED <<threadlines, inputId, phase, thenDone, timer, resolved, race, sent,
                 settleOrder, timeoutLogged, results, metadata, now, finishedAt>>
  /\ UNCHANGED <<rvars, exit, fvars, cvars, kvars>>

\* The provider call or the parsing of its answer throws: the catch block.
ProviderFails(i, ty) ==
  /\ phase \in {"waiting", "done"} /\ ~exit.done /\ NoMicrotask
  /\ sent[i].called /\ actual[i].state = "pending"
  /\ actual' = [actual EXCEPT ![i] = Fulfilled(ErrorResult(i, ty))]
  /\ UNCHANGED <<threadlines, inputId, phase, thenDone, timer, resolved, race, sent,
                 settleOrder, timeoutLogged, results, metadata, now, finishedAt>>
  /\ UNCHANGED <<rvars, exit, fvars, cvars, kvars>>

\* The setTimeout callback of rule i.
TimerFires(i) ==
  /\ phase \in {"waiting", "done"} /\ ~exit.done /\ NoMicrotask
  /\ timer[i] = "armed" /\ now >= EXPERT_TIMEOUT
  /\ timer' = [timer EXCEPT ![i] = "fired"]
  /\ IF TimeoutCallbackActs(resolved[i])
       THEN /\ resolved' = [resolved EXCEPT ![i] = TRUE]
            /\ timeoutLogged' = timeoutLogged \cup {i}
            /\ race' = [race EXCEPT ![i] = Settle(@, Fulfilled(TimeoutResult(i)))]
            /\ settleOrder' = IF race[i].state = "pending"
                                THEN Append(settleOrder, i) ELSE settleOrder
       ELSE UNCHANGED <<resolved, timeoutLogged, race, settleOrder>>
  /\ UNCHANGED <<threadlines, inputId, phase, actual, thenDone, sent, results,
                 metadata, now, finishedAt>>
  /\ UNCHANGED <<rvars, exit, fvars, cvars, kvars>>

\* The continuation of "await Promise.allSettled": the loop and the return.
Finish ==
  /\ phase = "waiting" /\ AwaitAll(race).ready
  /\ \A i \in Rules : ~ThenPending(i)
  /\ IF AwaitAll(race).threw
       THEN phase' = "aborted" /\ UNCHANGED <<results, metadata>>
       ELSE /\ phase' = "done"
            /\ results' = ExpertResults(race)
            /\ metadata' = Metadata(race)
  /\ finishedAt' = now
  /\ UNCHANGED <<threadlines, inputId, actual, thenDone, timer, resolved, race, sent,
                 settleOrder, timeoutLogged, now>>
  /\ UNCHANGED <<rvars, exit, fvars, cvars, kvars>>

\* Time passes while the event loop has something to wait for (the awaited
\* promises, an armed timer), never beyond a timer that is due nor a pending
\* reaction.
Tick ==
  /\ phase \in {"waiting", "done"} /\ ~exit.done /\ NoMicrotask
  /\ phase = "waiting" \/ \E i \in Rules : timer[i] = "armed"
  /\ now < MaxTime
  /\ \A i \in Rules : timer[i] = "armed" => now < EXPERT_TIMEOUT
  /\ now' = IF \E i \in Rules : timer[i] = "armed"
              THEN Min(now + TickMs, EXPERT_TIMEOUT) ELSE now + TickMs
  /\ UNCHANGED <<threadlines, inputId, phase, actual, thenDone, timer, resolved, race,
                 sent, settleOrder, timeoutLogged, results, metadata, finishedAt>>
  /\ UNCHANGED <<rvars, exit, fvars, cvars, kvars>>

\* response.results.some(r => r.status === 'attention' || r.status === 'error')
hasIssuesAttentionOnly(rs) == \E i \in DOMAIN rs : rs[i].status = "attention"

hasIssues(rs) == \E i \in DOMAIN rs : rs[i].status \in {"attention", "error"}

\* checkCommand after processThreadlines returned: display, then process.exit.
CheckExit ==
  /\ phase = "done" /\ ~exit.done
  /\ exit' = Exited(IF hasIssues(results) THEN 1 ELSE 0, "results")
  /\ UNCHANGED <<dvars, rvars, fvars, cvars, kvars>>

NextDispatch ==
  \/ CheckRequest
  \/ Dispatch
  \/ \E i \in Rules : ThenFulfilled(i)
  \/ \E i \in Rules : ThenRejected(i)
  \/ \E i \in Rules : \E ans \in ProviderAnswers :
        ProviderResponds(i, ans.status, ans.refs)
  \/ \E i \in Rules : \E ty \in ProviderErrorTypes : ProviderFails(i, ty)
  \/ \E i \in Rules : TimerFires(i)
  \/ Finish
  \/ Tick
  \/ CheckExit


\* ------------------------------------------------------- the diff resolvers
SHA_LENGTH == 40

Sha(c) == [n \in 1..SHA_LENGTH |-> c]

S_HEAD == <<"H", "E", "A", "D">>
S_main == <<"m", "a", "i", "n">>
S_origin == <<"o", "r", "i", "g", "i", "n", "/">>
S_refsRemotes ==
  <<":", "r", "e", "f", "s", "/", "r", "e", "m", "o", "t", "e", "s", "/">> \o S_origin
S_parent == <<"p", "a", "r", "e", "n", "t", " ">>
S_tree == <<"t", "r", "e", "e", " ", "t">>
S_author == <<"a", "u", "t", "h", "o", "r", " ", "n">>
S_msgFix == <<"f", "i", "x">>
S_msgParent == <<"p", "a", "r", "e", "n", "t", " ", "d", "i", "r">>
S_plusB == <<"+", "+", "+", " ", "b", "/">>
S_untrackedXY == <<"?", "?", " ">>
S_stagedMark == <<"+", "s">>
S_unstagedMark == <<"+", "u">>
P_dir == <<"d", "/">>

\* str.split(' ')
RECURSIVE SplitBlank(_, _)
SplitBlank(s, acc) ==
  IF s = <<>> THEN <<acc>>
  ELSE IF Head(s) = " " THEN <<acc>> \o SplitBlank(Tail(s), <<>>)
  ELSE SplitBlank(Tail(s), Append(acc, Head(s)))

\* String concatenation of two texts: the last line of the first continues
\* with the first line of the second.
ConcatText(t, u) ==
  SubSeq(t, 1, Len(t) - 1) \o <<t[Len(t)] \o u[1]>> \o SubSeq(u, 2, Len(u))

\* What git prints: each line ends with a newline, nothing prints ''.
GitOutput(lines) == IF lines = <<>> THEN EmptyText ELSE lines \o << <<>> >>

\* text.trim(): blank lines at either end go, with the blanks around the rest.
RECURSIVE DropLeadingBlank(_)
DropLeadingBlank(t) ==
  IF Len(t) > 1 /\ Trim(t[1]) = <<>> THEN DropLeadingBlank(Tail(t)) ELSE t

RECURSIVE DropTrailingBlank(_)
DropTrailingBlank(t) ==
  IF Len(t) > 1 /\ Trim(t[Len(t)]) = <<>>
    THEN DropTrailingBlank(SubSeq(t, 1, Len(t) - 1)) ELSE t

TrimText(t) ==
  LET u == DropTrailingBlank(DropLeadingBlank(t))
  IN IF Len(u) = 1 THEN <<Trim(u[1])>>
     ELSE <<TrimLeft(u[1])>> \o SubSeq(u, 2, Len(u) - 1) \o <<TrimRight(u[Len(u)])>>

\* const out = execSync(...).trim(); out ? out.split('\n') : []
NameList(out) == IF TrimText(out) = EmptyText THEN <<>> ELSE TrimText(out)

\* The raw commit object cat-file -p prints.
CommitObject(parents, msgLine) ==
  GitOutput(<<S_tree>> \o [n \in 1..Len(parents) |-> S_parent \o parents[n]]
            \o <<S_author, <<>>, msgLine>>)

\* lines.find(line => line.startsWith('parent ')), <<>> for undefined; taking
\* the last such line instead.
LastParentLine(lines) ==
  LET ix == {n \in 1..Len(lines) : StartsWith(lines[n], S_parent)}
  IN IF ix = {} THEN <<>> ELSE lines[CHOOSE n \in ix : \A m \in ix : m <= n]

FirstParentLine(lines) ==
  LET ix == {n \in 1..Len(lines) : StartsWith(lines[n], S_parent)}
  IN IF ix = {} THEN <<>> ELSE lines[CHOOSE n \in ix : \A m \in ix : n <= m]

\* The test for a missing parent line left out.
NoParentLineIgnored(parentLine) == FALSE

\* !parentLine
NoParentLine(parentLine) == parentLine = <<>>

\* The parsing of getCommitDiff: the parent sha, or the error it throws.
ParseParent(commitObject) ==
  LET parentLine == FirstParentLine(commitObject)
      parts == SplitBlank(parentLine, <<>>)
  IN IF NoParentLine(parentLine) THEN [ok |-> FALSE, why |-> "noParent", sha |-> <<>>]
     ELSE IF Len(parts) < 2 \/ parts[2] = <<>>
       THEN [ok |-> FALSE, why |-> "malformed", sha |-> <<>>]
     ELSE IF Trim(parts[2]) = <<>> \/ Len(Trim(parts[2])) # SHA_LENGTH
       THEN [ok |-> FALSE, why |-> "invalidSha", sha |-> <<>>]
     ELSE [ok |-> TRUE, why |-> "", sha |-> Trim(parts[2])]

\* ---- the repositories the resolvers are run on
ShaC == Sha("c")
ShaP == Sha("e")
ShaQ == Sha("f")

TrackedFiles == {P_a, P_b}
UntrackedEntries == {P_z, P_dir}
FileOrder == <<P_a, P_b, P_dir, P_z>>
Sorted(S) == SelectSeq(FileOrder, LAMBDA f : f \in S)

CommitRepos ==
  [sha : {S_HEAD, ShaC}, parents : {<<>>, <<ShaP>>, <<ShaP, ShaQ>>},
   msgLine : {S_msgFix, S_msgParent}, hasParent : BOOLEAN, target : {S_main},
   shallow : {FALSE}, staged : {{}}, unstaged : {{}}, untracked : {{}},
   fetched : {FALSE}, found : {0}]

PRRepos ==
  [sha : {S_HEAD}, parents : {<<ShaP>>}, msgLine : {S_msgFix}, hasParent : {FALSE},
   target : {S_main}, shallow : BOOLEAN, staged : {{}}, unstaged : {{}},
   untracked : {{}}, fetched : {FALSE}, found : {0}]

LocalRepos ==
  [sha : {S_HEAD}, parents : {<<ShaP>>}, msgLine : {S_msgFix}, hasParent : {TRUE},
   target : {S_main}, shallow : {FALSE}, staged : SUBSET TrackedFiles,
   unstaged : SUBSET TrackedFiles, untracked : SUBSET UntrackedEntries,
   fetched : {FALSE}, found : {0}]

\* The folder of --folder holds no file, one, or as many as the command's
\* limit on changed files and one more.
FolderRepos ==
  [sha : {S_HEAD}, parents : {<<ShaP>>}, msgLine : {S_msgFix}, hasParent : {TRUE},
   target : {S_main}, shallow : {FALSE}, staged : {{}}, unstaged : {{}},
   untracked : {{}}, fetched : {FALSE},
   found : {0, 1, MAX_CHANGED_FILES, MAX_CHANGED_FILES + 1}]

\* ---- what the git commands print
Section(f, mark) == <<HeaderLine(f), S_hunk, mark>>
SectionsOf(fs, mark) == Flatten([n \in 1..Len(fs) |-> Section(fs[n], mark)])

\* git diff --cached -U200 / git diff -U200, and their --name-only forms
CachedDiff == GitOutput(SectionsOf(Sorted(repo.staged), S_stagedMark))
WorktreeDiff == GitOutput(SectionsOf(Sorted(repo.unstaged), S_unstagedMark))
CachedNames == GitOutput(Sorted(repo.staged))
WorktreeNames == GitOutput(Sorted(repo.unstaged))

\* git diff <base> HEAD: the commit's change, plus the target's drift when the
\* base is the target tip and not the merge base.
S_driftMark == <<"+", "d">>
CommitChange == SectionsOf(<<P_a>>, S_plus)
DriftChange == SectionsOf(<<P_b>>, S_driftMark)
RangeDiff(twoPoint) ==
  GitOutput(IF twoPoint THEN CommitChange \o DriftChange ELSE CommitChange)
RangeNames(twoPoint) == GitOutput(IF twoPoint THEN <<P_a, P_b>> ELSE <<P_a>>)

NoResult == [diff |-> EmptyText, changedFiles |-> <<>>, comparison |-> ""]
NoError == [kind |-> "", named |-> <<>>, why |-> ""]

\* The arguments that tell the local diff commands apart.
A_cached == <<"--cached">>
A_worktree == <<"worktree">>
A_porcelain == <<"--porcelain">>

\* A command that was run: its kind, its argument and whether it succeeded.
Cmd(kind, arg, ok) == [cmd |-> kind, arg |-> arg, ok |-> ok]

\* `${parentSha}..${sha}`, `origin/${targetBranch}...HEAD`
TwoDots(a, b) == a \o <<".", ".">> \o b
ThreeDots(a, b) == a \o <<".", ".", ".">> \o b
TargetRefspec(t) == t \o S_refsRemotes \o t
OriginRef(t) == S_origin \o t

\* The error thrown when the fetch of the parent fails, naming parentSha,
\* or naming the commit instead.
ParentFetchErrorNamesCommit(parent, sha) ==
  [kind |-> "fetchParent", named |-> sha, why |-> "fetch"]

ParentFetchError(parent, sha) ==
  [kind |-> "fetchParent", named |-> parent, why |-> "fetch"]

TargetFetchError(t) ==
  [kind |-> "fetchTarget", named |-> OriginRef(t), why |-> "fetch"]

\* logger.warn prints always; logger.debug only with --debug.
WarnSilent(msg) == <<>>

Warn(msg) == <<msg>>

InitResolve ==
  /\ ctx \in {"pr", "commit", "local", "localLegacy", "folder"}
  /\ repo \in (IF ctx = "commit" THEN CommitRepos
               ELSE IF ctx = "pr" THEN PRRepos
               ELSE IF ctx = "folder" THEN FolderRepos ELSE LocalRepos)
  /\ pc = "start"
  /\ parentSha = <<>>
  /\ cmdLog = <<>>
  /\ warnings = <<>>
  /\ outcome = "running"
  /\ result = NoResult
  /\ error = NoError

Throw(e) == outcome' = "threw" /\ error' = e /\ pc' = "end" /\ UNCHANGED result
Return(r) == outcome' = "returned" /\ result' = r /\ pc' = "end" /\ UNCHANGED error
Goto(l) == pc' = l /\ UNCHANGED <<outcome, result, error>>

Run(kind, arg, ok) == cmdLog' = Append(cmdLog, Cmd(kind, arg, ok))

\* ---- getCommitDiff
\* git cat-file -p fails (the commit is not in the clone).
CatFileFails ==
  /\ ctx = "commit" /\ pc = "start"
  /\ Run("cat-file", repo.sha, FALSE)
  /\ Throw([kind |-> "parentSha", named |-> repo.sha, why |-> "catFile"])
  /\ UNCHANGED <<ctx, repo, parentSha, warnings>>
  /\ UNCHANGED <<dvars, exit, fvars, cvars, kvars>>

\* git cat-file -p prints the commit object, which is parsed for its parent.
CatFileReads ==
  /\ ctx = "commit" /\ pc = "start"
  /\ Run("cat-file", repo.sha, TRUE)
  /\ LET p == ParseParent(CommitObject(repo.parents, repo.msgLine))
     IN IF p.ok
          THEN parentSha' = p.sha /\ Goto("fetchParent")
          ELSE /\ Throw([kind |-> "parentSha", named |-> repo.sha, why |-> p.why])
               /\ UNCHANGED parentSha
  /\ UNCHANGED <<ctx, repo, warnings>>
  /\ UNCHANGED <<dvars, exit, fvars, cvars, kvars>>

\* git fetch origin <parentSha> --depth=1
FetchParent(ok) ==
  /\ ctx = "commit" /\ pc = "fetchParent"
  /\ Run("fetch", parentSha, ok)
  /\ IF ok
       THEN repo' = [repo EXCEPT !.fetched = TRUE] /\ Goto("commitDiff")
       ELSE Throw(ParentFetchError(parentSha, repo.sha)) /\ UNCHANGED repo
  /\ UNCHANGED <<ctx, parentSha, warnings>>
  /\ UNCHANGED <<dvars, exit, fvars, cvars, kvars>>

\* What git diff <base>..<sha> prints for the commit under review.
CommitDiffText(base) ==
  GitOutput(IF base = ShaP THEN CommitChange ELSE CommitChange \o DriftChange)
CommitDiffNames(base) ==
  GitOutput(IF base = ShaP THEN <<P_a>> ELSE <<P_a, P_b>>)

\* git diff <parentSha>..<sha> -U200
CommitDiffCmd(ok) ==
  /\ ctx = "commit" /\ pc = "commitDiff"
  /\ Run("diff", TwoDots(parentSha, repo.sha), ok)
  /\ IF ok /\ (repo.hasParent \/ repo.fetched)
       THEN /\ result' = [result EXCEPT !.diff = CommitDiffText(parentSha)]
            /\ pc' = "commitNames"
            /\ UNCHANGED <<outcome, error>>
       ELSE Throw([kind |-> "commitDiff", named |-> repo.sha, why |-> "diff"])
  /\ UNCHANGED <<ctx, repo, parentSha, warnings>>
  /\ UNCHANGED <<dvars, exit, fvars, cvars, kvars>>

\* git diff --name-only <parentSha>..<sha>, and the return
CommitNamesCmd(ok) ==
  /\ ctx = "commit" /\ pc = "commitNames"
  /\ Run("names", TwoDots(parentSha, repo.sha), ok)
  /\ IF ok
       THEN /\ outcome' = "returned" /\ pc' = "end" /\ UNCHANGED error
            /\ result' = [diff |-> result.diff,
                          changedFiles |-> NameList(CommitDiffNames(parentSha)),
                          comparison |-> "parent"]
       ELSE Throw([kind |-> "commitDiff", named |-> repo.sha, why |-> "diff"])
  /\ UNCHANGED <<ctx, repo, parentSha, warnings>>
  /\ UNCHANGED <<dvars, exit, fvars, cvars, kvars>>

\* ---- getPRDiff
\* git fetch origin <target>:refs/remotes/origin/<target> --depth=1
FetchTarget(ok) ==
  /\ ctx = "pr" /\ pc = "start"
  /\ Run("fetch", TargetRefspec(repo.target), ok)
  /\ IF ok THEN Goto("threeDots") ELSE Throw(TargetFetchError(repo.target))
  /\ UNCHANGED <<ctx, repo, parentSha, warnings>>
  /\ UNCHANGED <<dvars, exit, fvars, cvars, kvars>>

\* The catch block of the three-dots attempt: the warning, then two dots.
Fallback ==
  /\ warnings' = warnings \o Warn("shallowCloneTwoDots")
  /\ pc' = "twoDots"
  /\ result' = NoResult
  /\ UNCHANGED <<outcome, error>>

\* git diff origin/<target>...HEAD -U200; it needs the merge base.
ThreeDotsDiff(ok) ==
  /\ ctx = "pr" /\ pc = "threeDots"
  /\ ok => ~repo.shallow
  /\ Run("diff", ThreeDots(OriginRef(repo.target), S_HEAD), ok)
  /\ IF ok
       THEN /\ result' = [result EXCEPT !.diff = RangeDiff(FALSE)]
            /\ pc' = "threeDotsNames"
            /\ UNCHANGED <<outcome, error, warnings>>
       ELSE Fallback
  /\ UNCHANGED <<ctx, repo, parentSha>>
  /\ UNCHANGED <<dvars, exit, fvars, cvars, kvars>>

\* git diff --name-only origin/<target>...HEAD, and the return
ThreeDotsNames(ok) ==
  /\ ctx = "pr" /\ pc = "threeDotsNames"
  /\ Run("names", ThreeDots(OriginRef(repo.target), S_HEAD), ok)
  /\ IF ok
       THEN /\ outcome' = "returned" /\ pc' = "end" /\ UNCHANGED <<error, warnings>>
            /\ result' = [diff |-> result.diff,
                          changedFiles |-> NameList(RangeNames(FALSE)),
                          comparison |-> "mergeBase"]
       ELSE Fallback
  /\ UNCHANGED <<ctx, repo, parentSha>>
  /\ UNCHANGED <<dvars, exit, fvars, cvars, kvars>>

\* git diff origin/<target>..HEAD -U200; a failure propagates as it is.
TwoDotsDiff(ok) ==
  /\ ctx = "pr" /\ pc = "twoDots"
  /\ Run("diff", TwoDots(OriginRef(repo.target), S_HEAD), ok)
  /\ IF ok
       THEN /\ result' = [result EXCEPT !.diff = RangeDiff(TRUE)]
            /\ pc' = "twoDotsNames"
            /\ UNCHANGED <<outcome, error>>
       ELSE Throw([kind |-> "git", named |-> TwoDots(OriginRef(repo.target), S_HEAD),
                   why |-> "diff"])
  /\ UNCHANGED <<ctx, repo, parentSha, warnings>>
  /\ UNCHANGED <<dvars, exit, fvars, cvars, kvars>>

\* git diff --name-only origin/<target>..HEAD, and the return
TwoDotsNames(ok) ==
  /\ ctx = "pr" /\ pc = "twoDotsNames"
  /\ Run("names", TwoDots(OriginRef(repo.target), S_HEAD), ok)
  /\ IF ok
       THEN /\ outcome' = "returned" /\ pc' = "end" /\ UNCHANGED error
            /\ result' = [diff |-> result.diff,
                          changedFiles |-> NameList(RangeNames(TRUE)),
                          comparison |-> "twoPoint"]
       ELSE Throw([kind |-> "git", named |-> TwoDots(OriginRef(repo.target), S_HEAD),
                   why |-> "diff"])
  /\ UNCHANGED <<ctx, repo, parentSha, warnings>>
  /\ UNCHANGED <<dvars, exit, fvars, cvars, kvars>>

\* ---- getDiff of the local environment
\* git status --porcelain: "XY path" for the tracked entries, in path order,
\* then "?? path" for the untracked ones.
PorcelainXY(f) ==
  <<IF f \in repo.staged THEN "M" ELSE " ",
    IF f \in repo.unstaged THEN "M" ELSE " ", " ">>

PorcelainStatus ==
  LET tracked == Sorted(repo.staged \cup repo.unstaged)
      others == Sorted(repo.untracked)
  IN GitOutput([n \in 1..Len(tracked) |-> PorcelainXY(tracked[n]) \o tracked[n]]
               \o [n \in 1..Len(others) |-> S_untrackedXY \o others[n]])

\* The loop that collects the untracked entries: line[0] and line[1] are
\* both '?', the path is line.slice(3).
UntrackedOf(statusOutput) ==
  LET lines == NameList(statusOutput)
      picked == SelectSeq(lines, LAMBDA l : Len(l) >= 2 /\ l[1] = "?" /\ l[2] = "?")
  IN [n \in 1..Len(picked) |-> SubSeq(picked[n], 4, Len(picked[n]))]

actualStagedFiles == NameList(CachedNames)
actualUnstagedFiles == NameList(WorktreeNames)
untracked == UntrackedOf(PorcelainStatus)

\* fs.statSync(fullPath).isFile()
IsFile(f) == f # P_dir

\* The artificial diff of one untracked file: header, then every line added.
UntrackedDiff(f) ==
  LET lines == FileContentLines(f)
  IN <<HeaderLine(f), S_devNull, S_plusB \o f,
       S_newHunk \o NumberString(Len(lines)) \o S_hunkEnd>>
     \o [n \in 1..Len(lines) |-> <<"+">> \o lines[n]]

\* The three commands that read the working tree's state.
LocalInspect ==
  /\ ctx = "local" /\ pc = "start"
  /\ cmdLog' = cmdLog \o <<Cmd("names", A_cached, TRUE), Cmd("names", A_worktree, TRUE),
                         Cmd("status", A_porcelain, TRUE)>>
  /\ Goto(IF actualStagedFiles # <<>> THEN "staged"
          ELSE IF actualUnstagedFiles # <<>> \/ untracked # <<>> THEN "unstaged"
          ELSE "nothing")
  /\ UNCHANGED <<ctx, repo, parentSha, warnings>>
  /\ UNCHANGED <<dvars, exit, fvars, cvars, kvars>>

\* Which diff the staged workflow asks git for.
StagedDiffOfWorktree == WorktreeDiff

StagedDiff == CachedDiff

\* Workflow A: git diff --cached -U200. The index may have been emptied
\* since the names were read, and then the diff is empty.
LocalStaged(indexEmptied) ==
  /\ ctx = "local" /\ pc = "staged"
  /\ Run("diff", A_cached, TRUE)
  /\ LET diff == IF indexEmptied THEN EmptyText ELSE StagedDiff
     IN IF IsBlankText(diff)
          THEN Throw([kind |-> "stagedEmpty", named |-> <<>>, why |-> "emptyDiff"])
          ELSE Return([diff |-> diff, changedFiles |-> actualStagedFiles,
                       comparison |-> "staged"])
  /\ UNCHANGED <<ctx, repo, parentSha, warnings>>
  /\ UNCHANGED <<dvars, exit, fvars, cvars, kvars>>

\* Workflow B: the unstaged diff plus an artificial diff per untracked file.
LocalUnstaged(readable) ==
  /\ ctx = "local" /\ pc = "unstaged"
  /\ cmdLog' = IF actualUnstagedFiles # <<>>
                 THEN Append(cmdLog, Cmd("diff", A_worktree, TRUE)) ELSE cmdLog
  /\ LET diff == IF actualUnstagedFiles # <<>> THEN WorktreeDiff ELSE EmptyText
         changedFiles == actualUnstagedFiles
         files == SelectSeq(untracked, IsFile)
         untrackedDiffs == Flatten([n \in 1..Len(files) |-> UntrackedDiff(files[n])])
         combinedDiff ==
           IF files # <<>>
             THEN IF diff # EmptyText
                    THEN ConcatText(diff \o EmptyText, untrackedDiffs)
                    ELSE untrackedDiffs
             ELSE diff
         allChangedFiles == changedFiles \o files
     IN IF files # <<>> /\ ~readable
          THEN Throw([kind |-> "fs", named |-> files[1], why |-> "read"])
          ELSE IF allChangedFiles = <<>> \/ IsBlankText(combinedDiff)
            THEN Throw([kind |-> "noChanges", named |-> <<>>, why |-> "noChanges"])
            ELSE Return([diff |-> combinedDiff, changedFiles |-> allChangedFiles,
                         comparison |-> "unstaged"])
  /\ UNCHANGED <<ctx, repo, parentSha, warnings>>
  /\ UNCHANGED <<dvars, exit, fvars, cvars, kvars>>

\* No changes at all: fail loudly.
LocalNothing ==
  /\ ctx = "local" /\ pc = "nothing"
  /\ Throw([kind |-> "noChanges", named |-> <<>>, why |-> "noChanges"])
  /\ UNCHANGED <<ctx, repo, parentSha, cmdLog, warnings>>
  /\ UNCHANGED <<dvars, exit, fvars, cvars, kvars>>

\* ---- getDiff of git/local.ts, on simple-git's status summary
\* status.staged, and the paths of status.files (every porcelain entry).
StatusStaged == Sorted(repo.staged)
StatusFiles == Sorted(repo.staged \cup repo.unstaged) \o Sorted(repo.untracked)

\* Priority 1: staged changes.
LegacyStaged ==
  /\ ctx = "localLegacy" /\ pc = "start"
  /\ StatusStaged # <<>>
  /\ cmdLog' = cmdLog \o <<Cmd("status", <<>>, TRUE), Cmd("diff", A_cached, TRUE)>>
  /\ Return([diff |-> CachedDiff, changedFiles |-> StatusStaged, comparison |-> "staged"])
  /\ UNCHANGED <<ctx, repo, parentSha, warnings>>
  /\ UNCHANGED <<dvars, exit, fvars, cvars, kvars>>

\* Priority 2: unstaged changes; every entry of status.files has a status.
LegacyUnstaged ==
  /\ ctx = "localLegacy" /\ pc = "start"
  /\ StatusStaged = <<>> /\ StatusFiles # <<>>
  /\ cmdLog' = cmdLog \o <<Cmd("status", <<>>, TRUE), Cmd("diff", A_worktree, TRUE)>>
  /\ Return([diff |-> WorktreeDiff, changedFiles |-> StatusFiles,
             comparison |-> "unstaged"])
  /\ UNCHANGED <<ctx, repo, parentSha, warnings>>
  /\ UNCHANGED <<dvars, exit, fvars, cvars, kvars>>

\* No changes at all: an empty result.
LegacyNothing ==
  /\ ctx = "localLegacy" /\ pc = "start"
  /\ StatusStaged = <<>> /\ StatusFiles = <<>>
  /\ Run("status", <<>>, TRUE)
  /\ Return([diff |-> EmptyText, changedFiles |-> <<>>, comparison |-> "none"])
  /\ UNCHANGED <<ctx, repo, parentSha, warnings>>
  /\ UNCHANGED <<dvars, exit, fvars, cvars, kvars>>

\* ---- getFolderContent
\* The files found are read and turned into additions; a file that cannot
\* be read is skipped.
FolderContent(readable) ==
  /\ ctx = "folder" /\ pc = "start"
  /\ LET filePaths == [k \in 1..repo.found |-> FolderFile(k)]
         read == IF readable THEN filePaths ELSE <<>>
     IN IF filePaths = <<>>
          THEN Throw([kind |-> "noFiles", named |-> <<>>, why |-> "noFiles"])
          ELSE Return([diff |-> FolderResult(read).diff,
                       changedFiles |-> FolderResult(read).changedFiles,
                       comparison |-> "folder"])
  /\ UNCHANGED <<ctx, repo, parentSha, cmdLog, warnings>>
  /\ UNCHANGED <<dvars, exit, fvars, cvars, kvars>>

\* ---- checkCommand around the resolver
\* The resolver returned: the tests on gitDiff before the rules are run.
CheckResolved ==
  /\ outcome = "returned" /\ exit = NotExited
  /\ exit' = CheckChanges(result)
  /\ UNCHANGED <<dvars, rvars, fvars, cvars, kvars>>

\* The resolver threw: nothing in checkCommand or in index.ts catches it, the
\* action's promise rejects and node ends the process with code 1.
CheckUncaught ==
  /\ outcome = "threw" /\ exit = NotExited
  /\ exit' = Exited(1, "uncaught")
  /\ UNCHANGED <<dvars, rvars, fvars, cvars, kvars>>

NextResolve ==
  \/ CatFileFails
  \/ CatFileReads
  \/ \E ok \in BOOLEAN : FetchParent(ok)
  \/ \E ok \in BOOLEAN : CommitDiffCmd(ok)
  \/ \E ok \in BOOLEAN : CommitNamesCmd(ok)
  \/ \E ok \in BOOLEAN : FetchTarget(ok)
  \/ \E ok \in BOOLEAN : ThreeDotsDiff(ok)
  \/ \E ok \in BOOLEAN : ThreeDotsNames(ok)
  \/ \E ok \in BOOLEAN : TwoDotsDiff(ok)
  \/ \E ok \in BOOLEAN : TwoDotsNames(ok)
  \/ LocalInspect
  \/ \E indexEmptied \in BOOLEAN : LocalStaged(indexEmptied)
  \/ \E readable \in BOOLEAN : LocalUnstaged(readable)
  \/ LocalNothing
  \/ LegacyStaged
  \/ LegacyUnstaged
  \/ LegacyNothing
  \/ \E readable \in BOOLEAN : FolderContent(readable)
  \/ CheckResolved
  \/ CheckUncaught

\* ---------------------------------------------------------- specifications
\* The resolvers at rest, for the runs of the dispatcher.
ResolveIdle ==
  /\ ctx = "none"
  /\ repo = [sha |-> S_HEAD, parents |-> <<>>, msgLine |-> S_msgFix, hasParent |-> FALSE,
             target |-> S_main, shallow |-> FALSE, staged |-> {}, unstaged |-> {},
             untracked |-> {}, fetched |-> FALSE, found |-> 0]
  /\ pc = "end"
  /\ parentSha = <<>>
  /\ cmdLog = <<>>
  /\ warnings = <<>>
  /\ outcome = "running"
  /\ result = NoResult
  /\ error = NoError

\* The dispatcher at rest, for the runs of the resolvers.
DispatchIdle ==
  /\ threadlines = [i \in Rules |-> <<G_star_ts>>]
  /\ inputId = 1
  /\ phase = "off"
  /\ actual = [i \in Rules |-> Pending]
  /\ thenDone = [i \in Rules |-> FALSE]
  /\ timer = [i \in Rules |-> "none"]
  /\ resolved = [i \in Rules |-> FALSE]
  /\ race = [i \in Rules |-> Pending]
  /\ sent = [i \in Rules |-> NotSent]
  /\ settleOrder = <<>>
  /\ timeoutLogged = {}
  /\ results = <<>>
  /\ metadata = NoMetadata
  /\ now = 0
  /\ finishedAt = 0

\* ------------------------------------------------------ one provider call
CallTickMs == 1000
MaxCallTime == 50000

\* setTimeout(() => controller.abort(), 45000)
CALL_TIMEOUT == 45000

CallIdle ==
  /\ cNow = 0
  /\ alive = TRUE
  /\ fetchState = "idle"
  /\ abortTimer = "none"
  /\ taskTimer = "none"
  /\ cRace = "pending"

\* The call's timer is due 45 s after the call started.
AbortDue(t) == t >= CALL_TIMEOUT

\* The dispatcher's timer is due EXPERT_TIMEOUT after the dispatch.
TaskTimeoutDue(t) == t >= EXPERT_TIMEOUT

\* The race settles once.
SettleRace(r, with) == IF r = "pending" THEN with ELSE r

\* processThreadlines arms the rule's timer and processThreadline reaches
\* its fetch in the same turn.
CallStarts ==
  /\ alive /\ fetchState = "idle"
  /\ fetchState' = "pending"
  /\ abortTimer' = "armed"
  /\ taskTimer' = "armed"
  /\ UNCHANGED <<cNow, alive, cRace>>
  /\ UNCHANGED <<dvars, rvars, exit, fvars, kvars>>

\* fetch resolves with the response's status and headers:
\* clearTimeout(timeoutId); the body is still to be read.
HeadersArrive ==
  /\ alive /\ fetchState = "pending"
  /\ fetchState' = "reading"
  /\ abortTimer' = "cleared"
  /\ UNCHANGED <<cNow, alive, taskTimer, cRace>>
  /\ UNCHANGED <<dvars, rvars, exit, fvars, kvars>>

\* httpResponse.json() or .text() resolves: the call returns or throws, and
\* the then-callback of the dispatcher clears its timer and settles the race.
BodyArrives ==
  /\ alive /\ fetchState = "reading"
  /\ fetchState' = "responded"
  /\ taskTimer' = IF taskTimer = "armed" THEN "cleared" ELSE taskTimer
  /\ cRace' = SettleRace(cRace, "result")
  /\ UNCHANGED <<cNow, alive, abortTimer>>
  /\ UNCHANGED <<dvars, rvars, exit, fvars, kvars>>

\* fetch rejects with a network error: clearTimeout(timeoutId), the error
\* becomes the rule's error result.
FetchFails ==
  /\ alive /\ fetchState = "pending"
  /\ fetchState' = "failed"
  /\ abortTimer' = "cleared"
  /\ taskTimer' = IF taskTimer = "armed" THEN "cleared" ELSE taskTimer
  /\ cRace' = SettleRace(cRace, "result")
  /\ UNCHANGED <<cNow, alive>>
  /\ UNCHANGED <<dvars, rvars, exit, fvars, kvars>>

\* The call's timer fires: controller.abort(), fetch rejects with AbortError,
\* 'Request timeout' is thrown and becomes the rule's error result.
AbortFires ==
  /\ alive /\ fetchState = "pending"
  /\ abortTimer = "armed" /\ AbortDue(cNow)
  /\ taskTimer = "armed" => ~TaskTimeoutDue(cNow)
  /\ abortTimer' = "fired"
  /\ fetchState' = "aborted"
  /\ taskTimer' = IF taskTimer = "armed" THEN "cleared" ELSE taskTimer
  /\ cRace' = SettleRace(cRace, "result")
  /\ UNCHANGED <<cNow, alive>>
  /\ UNCHANGED <<dvars, rvars, exit, fvars, kvars>>

\* The dispatcher's timer fires and resolves the race with the timeout
\* result; the call is left as it is.
TaskTimerFires ==
  /\ alive /\ taskTimer = "armed" /\ TaskTimeoutDue(cNow)
  /\ taskTimer' = "fired"
  /\ cRace' = SettleRace(cRace, "timeout")
  /\ UNCHANGED <<cNow, alive, fetchState, abortTimer>>
  /\ UNCHANGED <<dvars, rvars, exit, fvars, kvars>>

\* Time passes while the call is in flight or a timer is armed, never beyond
\* a timer that is due.
CallTick ==
  /\ alive /\ cNow < MaxCallTime
  /\ fetchState \in {"pending", "reading"} \/ taskTimer = "armed"
  /\ taskTimer = "armed" => ~TaskTimeoutDue(cNow)
  /\ abortTimer = "armed" => ~AbortDue(cNow)
  /\ cNow' = Min(cNow + CallTickMs,
                 IF taskTimer = "armed" THEN EXPERT_TIMEOUT
                 ELSE IF abortTimer = "armed" /\ cNow < CALL_TIMEOUT THEN CALL_TIMEOUT
                 ELSE MaxCallTime)
  /\ UNCHANGED <<alive, fetchState, abortTimer, taskTimer, cRace>>
  /\ UNCHANGED <<dvars, rvars, exit, fvars, kvars>>

\* checkCommand calls process.exit after the run returned.
ProcessExits ==
  /\ alive /\ cRace # "pending"
  /\ alive' = FALSE
  /\ UNCHANGED <<cNow, fetchState, abortTimer, taskTimer, cRace>>
  /\ UNCHANGED <<dvars, rvars, exit, fvars, kvars>>

NextCall ==
  \/ CallStarts
  \/ HeadersArrive
  \/ BodyArrives
  \/ FetchFails
  \/ AbortFires
  \/ TaskTimerFires
  \/ CallTick
  \/ ProcessExits

\* --------------------------------------------------- one run of the command
\* A run with both providers configured, offline: the settings at rest.
CommandIdle ==
  /\ config = [bedrockKeys |-> TRUE, bedrockSettings |-> TRUE, openaiKey |-> TRUE,
               openaiSettings |-> TRUE, online |-> FALSE, apiKey |-> TRUE, account |-> TRUE]
  /\ step = "off"
  /\ work = {}

Configs ==
  [bedrockKeys : BOOLEAN, bedrockSettings : BOOLEAN, openaiKey : BOOLEAN,
   openaiSettings : BOOLEAN, online : BOOLEAN, apiKey : BOOLEAN, account : BOOLEAN]

\* getBedrockConfig / getOpenAIConfig: "none" without the keys, "throws" with
\* the keys but a setting missing from .threadlinerc, "ok" otherwise.
getBedrockConfig(c) ==
  IF ~c.bedrockKeys THEN "none" ELSE IF ~c.bedrockSettings THEN "throws" ELSE "ok"

getOpenAIConfig(c) ==
  IF ~c.openaiKey THEN "none" ELSE IF ~c.openaiSettings THEN "throws" ELSE "ok"

\* Mode "online" without THREADLINE_API_KEY or THREADLINE_ACCOUNT.
SyncCredentialsMissing(c) == c.online /\ (~c.apiKey \/ ~c.account)

\* What processThreadlines may return to the command.
CommandResults ==
  {<<[status |-> s]>> : s \in {"compliant", "attention", "error", "not_relevant"}}

\* loadConfig returned: git root, provider selection, then findThreadlines.
CommandStart(gitOk) ==
  /\ step = "loadConfig" /\ ~exit.done
  /\ IF ~gitOk THEN exit' = Exited(1, "notRepo") /\ step' = "end"
     ELSE IF getBedrockConfig(config) = "throws"
             \/ getOpenAIConfig(config) = "throws" THEN
       exit' = Exited(1, "uncaughtSetting") /\ step' = "end"
     ELSE IF getBedrockConfig(config) = "none" /\ getOpenAIConfig(config) = "none" THEN
       exit' = Exited(1, "noProvider") /\ step' = "end"
     ELSE exit' = exit /\ step' = "findThreadlines"
  /\ UNCHANGED <<config, work>>
  /\ UNCHANGED <<dvars, rvars, fvars, cvars>>

\* findThreadlines returned n rule documents: none ends the run; more than
\* one review flag ends it; otherwise the context is collected.
CommandThreadlines(n, flags) ==
  /\ step = "findThreadlines" /\ ~exit.done
  /\ IF n = 0 THEN exit' = Exited(0, "noThreadlines") /\ step' = "end" /\ work' = work
     ELSE IF flags > 1 THEN exit' = Exited(1, "flags") /\ step' = "end" /\ work' = work
     ELSE exit' = exit /\ step' = "context" /\ work' = work \cup {"diff"}
  /\ UNCHANGED config
  /\ UNCHANGED <<dvars, rvars, fvars, cvars>>

\* The resolver threw, or returned Inputs[k]: the gate on the changed files,
\* the context files, then processThreadlines.
CommandContext(ok, k, contextFilesOk) ==
  /\ step = "context" /\ ~exit.done
  /\ IF ~ok THEN exit' = Exited(1, "uncaught") /\ step' = "end" /\ work' = work
     ELSE IF CheckChanges([diff |-> Inputs[k].diff, changedFiles |-> Inputs[k].files]).done THEN
       /\ exit' = CheckChanges([diff |-> Inputs[k].diff, changedFiles |-> Inputs[k].files])
       /\ step' = "end" /\ work' = work
     ELSE IF ~contextFilesOk THEN
       exit' = Exited(1, "uncaught") /\ step' = "end" /\ work' = work
     ELSE
       /\ exit' = CheckChanges([diff |-> Inputs[k].diff, changedFiles |-> Inputs[k].files])
       /\ step' = "processThreadlines"
       /\ work' = work \cup {"evaluate"}
  /\ UNCHANGED config
  /\ UNCHANGED <<dvars, rvars, fvars, cvars>>

\* processThreadlines returned rs: in mode "online" the credentials are read
\* and the results synced; otherwise they are displayed and the run exits.
CommandProcessed(rs) ==
  /\ step = "processThreadlines" /\ ~exit.done
  /\ IF SyncCredentialsMissing(config) THEN
       exit' = Exited(1, "uncaughtSyncCredentials") /\ step' = "end" /\ work' = work
     ELSE IF config.online THEN
       /\ exit' = [exit EXCEPT !.code = IF hasIssues(rs) THEN 1 ELSE 0]
       /\ step' = "syncResults" /\ work' = work \cup {"sync"}
     ELSE
       /\ exit' = Exited(IF hasIssues(rs) THEN 1 ELSE 0, "results")
       /\ step' = "end" /\ work' = work
  /\ UNCHANGED config
  /\ UNCHANGED <<dvars, rvars, fvars, cvars>>

\* syncResults returned or threw: either way the results are displayed.
CommandSynced(ok) ==
  /\ step = "syncResults" /\ ~exit.done
  /\ exit' = Exited(exit.code, IF ok THEN "results" ELSE "resultsSyncFailed")
  /\ step' = "end"
  /\ UNCHANGED <<config, work>>
  /\ UNCHANGED <<dvars, rvars, fvars, cvars>>

NextCommand ==
  \/ \E gitOk \in BOOLEAN : CommandStart(gitOk)
  \/ \E n \in 0..1, flags \in 0..2 : CommandThreadlines(n, flags)
  \/ \E ok \in BOOLEAN, k \in 1..3, contextFilesOk \in BOOLEAN :
       CommandContext(ok, k, contextFilesOk)
  \/ \E rs \in CommandResults : CommandProcessed(rs)
  \/ \E ok \in BOOLEAN : CommandSynced(ok)

\* ------------------------------------------------- the diff functions alone
MaxSections == 2
MaxContext == 3

S_index == <<"i", "n", "d", "e", "x", " ", "1", ".", ".", "2">>
S_minusA == <<"-", "-", "-", " ", "a", "/">>
S_ctxK == <<" ", "k">>

\* Hunks as git writes them: changes inside context, context only, changes
\* only (counts of 1 left out), and two changes apart.
HunkChange ==
  <<S_atMinus \o <<"1", ",", "5">> \o S_spPlus \o <<"1", ",", "5">> \o S_spAt,
    S_ctx, S_ctx, S_minus, S_plus, S_ctx, S_ctx>>
HunkContext ==
  <<S_atMinus \o <<"9", ",", "3">> \o S_spPlus \o <<"9", ",", "3">> \o S_spAt \o <<" ", "f", "n">>,
    S_ctxK, S_ctxK, S_ctxK>>
HunkShort == <<S_hunk, S_minus, S_plus>>
HunkTwo ==
  <<S_atMinus \o <<"3", ",", "6">> \o S_spPlus \o <<"3", ",", "6">> \o S_spAt,
    S_minus, S_ctx, S_ctx, S_ctx, S_ctx, S_plus>>

\* A file section of git diff: header, metadata lines, hunks.
GitSection(p, hunks) ==
  [kind |-> "git", path |-> p, hunks |-> hunks,
   lines |-> <<HeaderLine(p), S_index, S_minusA \o p, S_plusB \o p>> \o Flatten(hunks)]

\* A file section as getFolderContent writes it.
FolderSection(f) ==
  [kind |-> "folder", path |-> f,
   hunks |-> <<SubSeq(FolderFileDiff(f), 3, Len(FolderFileDiff(f)))>>,
   lines |-> FolderFileDiff(f)]

SectionPool ==
  {GitSection(P_a, <<HunkChange>>),
   GitSection(P_a, <<HunkContext, HunkTwo>>),
   GitSection(P_b, <<HunkShort>>),
   GitSection(P_b, <<HunkContext>>),
   GitSection(P_src_a, <<HunkChange, HunkContext>>),
   FolderSection(FolderFile(1)),
   FolderSection(FolderFile(2))}

\* The diffs a resolver can hand over: up to MaxSections sections of one
\* kind, one per path.
DiffPool ==
  {ss \in UNION {[1..n -> SectionPool] : n \in 0..MaxSections} :
     /\ \A i, j \in 1..Len(ss) : i # j => ss[i].path # ss[j].path
     /\ \A i, j \in 1..Len(ss) : ss[i].kind = ss[j].kind}

PathsOf(sections) == [k \in 1..Len(sections) |-> sections[k].path]

\* The lines of a diff made of these sections, and its text.
DiffLines(sections) == Flatten([k \in 1..Len(sections) |-> sections[k].lines])

DiffText(sections) == JoinLines(DiffLines(sections))

\* The file lists a caller may pass for the diff.
FileLists(sections) ==
  {<<>>, PathsOf(sections), extractFilesFromDiff(DiffText(sections)),
   <<P_a>>, <<P_b, P_a>>, <<P_z>>, <<FolderFile(1)>>}

AllFileLists == UNION {FileLists(sections) : sections \in DiffPool}

\* The output of a git command: every line ended by a newline, the last
\* newline gone when the caller trimmed the output.
RECURSIVE DiffBytes(_, _)
DiffBytes(lines, trimmed) ==
  IF lines = <<>> THEN <<>>
  ELSE IF Len(lines) = 1 /\ trimmed THEN lines[1]
  ELSE lines[1] \o <<"\n">> \o DiffBytes(Tail(lines), trimmed)

\* A split that leaves out the empty string after a final newline.
RECURSIVE SplitNoTrailing(_)
SplitNoTrailing(s) ==
  LET ks == {k \in 1..Len(s) : s[k] = "\n"}
  IN IF ks = {} THEN (IF s = <<>> THEN <<>> ELSE <<s>>)
     ELSE LET k == CHOOSE x \in ks : \A y \in ks : x <= y
          IN <<SubSeq(s, 1, k - 1)>> \o SplitNoTrailing(SubSeq(s, k + 1, Len(s)))

\* String.prototype.split('\n')
RECURSIVE SplitNL(_)
SplitNL(s) ==
  LET ks == {k \in 1..Len(s) : s[k] = "\n"}
  IN IF ks = {} THEN <<s>>
     ELSE LET k == CHOOSE x \in ks : \A y \in ks : x <= y
          IN <<SubSeq(s, 1, k - 1)>> \o SplitNL(SubSeq(s, k + 1, Len(s)))

\* Array.prototype.join('\n')
RECURSIVE JoinNL(_)
JoinNL(ls) ==
  IF ls = <<>> THEN <<>>
  ELSE IF Len(ls) = 1 THEN ls[1]
  ELSE ls[1] \o <<"\n">> \o JoinNL(Tail(ls))

\* The scan of filterDiffByFiles with every file of the diff wanted: the
\* bytes are split into lines, the lines are read into file sections by
\* their headers, and the sections' lines are joined.
ReadAndJoin(bytes) ==
  LET lines == SplitNL(bytes)
  IN JoinNL(FilterLoop(lines, 1, SeqToSet(extractFilesFromDiff(lines)), FALSE))

NoFilterCall == [called |-> FALSE, files |-> <<>>, diff |-> EmptyText, listed |-> <<>>]
NotSlimmed == [done |-> FALSE, diff |-> EmptyText]
NotReslimmed == [called |-> FALSE, contextLines |-> 0, diff |-> EmptyText]
NotRebuilt == [called |-> FALSE, bytesIn |-> <<>>, bytesOut |-> <<>>]

DiffIdle ==
  /\ given = <<>>
  /\ filterCall = NoFilterCall
  /\ slims = [c \in 0..MaxContext |-> NotSlimmed]
  /\ reslim = NotReslimmed
  /\ rebuilt = NotRebuilt

InitDiff ==
  /\ given \in DiffPool
  /\ filterCall = NoFilterCall
  /\ slims = [c \in 0..MaxContext |-> NotSlimmed]
  /\ reslim = NotReslimmed
  /\ rebuilt = NotRebuilt

\* filterDiffByFiles(diff, filesToInclude), then extractFilesFromDiff of
\* what it returned, as processThreadline calls them.
FilterByFiles(filesToInclude) ==
  /\ ~filterCall.called
  /\ filesToInclude \in FileLists(given)
  /\ filterCall' =
       [called |-> TRUE, files |-> filesToInclude,
        diff |-> filterDiffByFiles(DiffText(given), filesToInclude),
        listed |-> extractFilesFromDiff(filterDiffByFiles(DiffText(given), filesToInclude))]
  /\ UNCHANGED <<given, slims, reslim, rebuilt>>
  /\ UNCHANGED <<dvars, rvars, exit, cvars, kvars>>

\* createSlimDiff(fullDiff, contextLines)
Slim(contextLines) ==
  /\ ~slims[contextLines].done
  /\ slims' = [slims EXCEPT ![contextLines] =
                 [done |-> TRUE, diff |-> createSlimDiff(DiffText(given), contextLines)]]
  /\ UNCHANGED <<given, filterCall, reslim, rebuilt>>
  /\ UNCHANGED <<dvars, rvars, exit, cvars, kvars>>

\* createSlimDiff(slim, contextLines) on a slim diff made with contextLines.
Reslim(contextLines) ==
  /\ slims[contextLines].done /\ ~reslim.called
  /\ reslim' = [called |-> TRUE, contextLines |-> contextLines,
                diff |-> createSlimDiff(slims[contextLines].diff, contextLines)]
  /\ UNCHANGED <<given, filterCall, slims, rebuilt>>
  /\ UNCHANGED <<dvars, rvars, exit, cvars, kvars>>

\* The diff arrives as bytes and goes through the scan and the join.
Rebuild(trimmed) ==
  /\ ~rebuilt.called
  /\ rebuilt' = [called |-> TRUE,
                 bytesIn |-> DiffBytes(DiffLines(given), trimmed),
                 bytesOut |-> ReadAndJoin(DiffBytes(DiffLines(given), trimmed))]
  /\ UNCHANGED <<given, filterCall, slims, reslim>>
  /\ UNCHANGED <<dvars, rvars, exit, cvars, kvars>>

\* The filter and the scan-and-join, on a diff.
NextDiff ==
  \/ \E filesToInclude \in AllFileLists : FilterByFiles(filesToInclude)
  \/ \E trimmed \in BOOLEAN : Rebuild(trimmed)

\* createSlimDiff alone, on a diff and on its own results.
NextSlim ==
  \/ \E contextLines \in 0..MaxContext : Slim(contextLines)
  \/ \E contextLines \in 0..MaxContext : Reslim(contextLines)

\* processThreadlines is called, the resolvers at rest.
Init ==
  InitDispatch /\ ResolveIdle /\ exit = NotExited /\ DiffIdle /\ CallIdle /\ CommandIdle

\* A resolver is called, the dispatcher at rest.
InitResolvers ==
  InitResolve /\ DispatchIdle /\ exit = NotExited /\ DiffIdle /\ CallIdle /\ CommandIdle

Spec == Init /\ [][NextDispatch]_vars

SpecResolve == InitResolvers /\ [][NextResolve]_vars

\* The diff functions on a diff, the dispatcher and the resolvers at rest.
InitDiffs ==
  InitDiff /\ DispatchIdle /\ ResolveIdle /\ exit = NotExited /\ CallIdle /\ CommandIdle

SpecDiff == InitDiffs /\ [][NextDiff]_vars

SpecSlim == InitDiffs /\ [][NextSlim]_vars

\* One provider call, everything else at rest. The event loop runs a timer
\* that is due and lets time pass; nothing makes the provider answer.
InitCall ==
  CallIdle /\ DispatchIdle /\ ResolveIdle /\ exit = NotExited /\ DiffIdle /\ CommandIdle

SpecCall ==
  /\ InitCall
  /\ [][NextCall]_vars
  /\ WF_vars(CallStarts) /\ WF_vars(AbortFires) /\ WF_vars(TaskTimerFires) /\ WF_vars(CallTick)

\* checkCommand has been called and loadConfig is awaited; all else at rest.
InitCommand ==
  /\ config \in Configs /\ step = "loadConfig" /\ work = {}
  /\ exit = NotExited
  /\ DispatchIdle /\ ResolveIdle /\ DiffIdle /\ CallIdle

SpecCommand == InitCommand /\ [][NextCommand]_vars

\* -------------------------------------------------- claims on the dispatcher
\* What rule i's own promise, timer and provider call determine for it.
OwnOutcome(i) ==
  IF actual[i].state = "rejected" THEN RejectedResult(i)
  ELSE IF timer[i] = "fired" THEN TimeoutResult(i)
  ELSE actual[i].value

Called == {i \in Rules : sent[i].called}

\* C1: when an evaluation never resolves, the run still returns no later than
\* EXPERT_TIMEOUT after it started: time does not pass the timeout while the
\* run is waiting. Its report gives the rule whose evaluation is still pending
\* the timeout result, counts in timedOut the rules whose timer fired on an
\* unsettled evaluation (and, besides them, only provider errors that carry
\* the type "timeout" themselves), and keeps the completed results of the
\* others.
C1_TimeoutBoundsRun ==
  /\ phase = "waiting" => now <= EXPERT_TIMEOUT
  /\ phase = "done" =>
       /\ finishedAt <= EXPERT_TIMEOUT
       /\ \A i \in Rules : actual[i].state = "pending" => results[i] = TimeoutResult(i)
       /\ metadata.timedOut =
            Cardinality({i \in Rules : timer[i] = "fired" /\ actual[i].state # "rejected"})
            + Cardinality({i \in Rules : timer[i] = "cleared"
                                          /\ actual[i].value = ErrorResult(i, "timeout")})
       /\ \A i \in Rules :
            (actual[i].state = "fulfilled" /\ timer[i] = "cleared")
              => results[i] = actual[i].value

C1_Witness ==
  /\ phase = "done"
  /\ finishedAt = EXPERT_TIMEOUT
  /\ metadata.timedOut = 1
  /\ \E i, j \in Rules :
       /\ i # j
       /\ sent[i].called /\ actual[i].state = "pending"
       /\ results[i] = TimeoutResult(i)
       /\ results[j].status = "attention"

\* C2: a timeout, a provider error or a rejected evaluation of one rule is
\* that rule's own result: the dispatch is never aborted, it reports one
\* result per rule, and each rule's result is determined by that rule's own
\* promise and timer alone.
C2_ErrorsIsolated ==
  /\ phase # "aborted"
  /\ phase = "done" =>
       /\ DOMAIN results = Rules
       /\ \A i \in Rules : results[i] = OwnOutcome(i)

C2_Witness ==
  /\ phase = "done"
  /\ \E i, j \in Rules :
       /\ actual[i].state = "rejected" /\ results[i] = RejectedResult(i)
       /\ results[j].status = "attention"

\* C3: every rule has exactly one result. A settled race promise never
\* changes (a completion after the timeout does not replace the Timeout
\* result, a timer firing after the settlement adds nothing), and the report,
\* once returned, has one entry per rule and stays as it is.
C3_OneResultPerRule ==
  [][/\ \A i \in Rules : race[i].state # "pending" => race'[i] = race[i]
     /\ phase = "done" => (phase' = "done" /\ results' = results)
     /\ phase' = "done" =>
          /\ DOMAIN results' = Rules
          /\ \A i \in Rules : results'[i].expertId = ThreadlineIds[i]
          /\ \A i \in Rules : timer'[i] = "fired" /\ actual'[i].state # "rejected"
                                  => results'[i] = TimeoutResult(i)]_vars

C3_Witness ==
  /\ phase = "done"
  /\ \E i \in Rules :
       /\ results[i] = TimeoutResult(i)
       /\ actual[i].state = "fulfilled" /\ thenDone[i]
       /\ actual[i].value.status = "attention"

\* C4: the report lists the results in the order of the rule-document list,
\* whatever the order in which the evaluations completed, failed or timed out.
C4_ReportInListOrder ==
  phase = "done" =>
    /\ DOMAIN results = Rules
    /\ \A i \in Rules : results[i].expertId = ThreadlineIds[i]

C4_Witness ==
  /\ phase = "done"
  /\ settleOrder[1] # 1
  /\ \E i \in Rules : results[i] = TimeoutResult(i)
  /\ \E i \in Rules : results[i].status = "attention"

C6_GlobstarRuleEvaluated ==
  \A i \in Rules :
    (phase # "idle" /\ Inputs[inputId].files = <<P_a, P_b>> /\ threadlines[i] = <<G_dstar_a>>)
      => /\ sent[i].called
         /\ sent[i].files = <<P_a>>
         /\ sent[i].diff = <<HeaderLine(P_a), S_hunk, S_minus, S_plus>>

C14_ReferencesAmongSentFiles ==
  \A i \in Rules :
    /\ SeqToSet(actual[i].value.fileReferences) \subseteq SeqToSet(sent[i].files)
    /\ SeqToSet(race[i].value.fileReferences) \subseteq SeqToSet(sent[i].files)
    /\ P_z \notin SeqToSet(race[i].value.fileReferences)
    /\ phase = "done" =>
         /\ SeqToSet(results[i].fileReferences) \subseteq SeqToSet(sent[i].files)
         /\ P_z \notin SeqToSet(results[i].fileReferences)

\* A reported result built from the answer with references <<P_b, P_z>>: P_b
\* was sent and is kept, P_z was not and is gone.
C14_Witness ==
  /\ phase = "done"
  /\ \E i \in Rules :
       /\ sent[i].called
       /\ results[i].status = "attention"
       /\ results[i].fileReferences = <<P_b>>

\* C21: in the report, timedOut is the number of results that are errors of
\* type "timeout", errors the number of results that are errors of any other
\* kind, completed the number of the remaining results, and the three add up
\* to the number of rule documents, which is the number of results.
C21_CountsPartitionResults ==
  phase = "done" =>
    /\ metadata.timedOut =
         Cardinality({i \in Rules : results[i].status = "error" /\ results[i].errType = "timeout"})
    /\ metadata.errors =
         Cardinality({i \in Rules : results[i].status = "error" /\ results[i].errType # "timeout"})
    /\ metadata.completed = Cardinality({i \in Rules : results[i].status # "error"})
    /\ metadata.completed + metadata.timedOut + metadata.errors = Len(results)
    /\ Len(results) = Len(threadlines)
    /\ metadata.totalThreadlines = Len(threadlines)

\* A report with a timeout next to another error.
C21_Witness ==
  /\ phase = "done"
  /\ metadata.timedOut >= 1
  /\ metadata.errors >= 1
  /\ \E i \in Rules : results[i] = TimeoutResult(i)

\* --------------------------------------------------- claims on the resolvers
Ran(kind) == {n \in 1..Len(cmdLog) : cmdLog[n].cmd = kind}

C8_FetchFailureFatal ==
  \A n \in Ran("fetch") :
    ~cmdLog[n].ok =>
      /\ n = Len(cmdLog)
      /\ Ran("diff") \cup Ran("names") = {}
      /\ outcome = "threw" /\ result = NoResult
      /\ ctx = "commit" => (error.kind = "fetchParent" /\ error.named = cmdLog[n].arg)
      /\ ctx = "pr" =>
           /\ error.kind = "fetchTarget"
           /\ cmdLog[n].arg = TargetRefspec(repo.target)
           /\ error.named = OriginRef(repo.target)

C8_Witness ==
  /\ ctx = "commit" /\ outcome = "threw"
  /\ Len(repo.parents) = 2
  /\ cmdLog[Len(cmdLog)] = Cmd("fetch", ShaP, FALSE)
  /\ error.named = ShaP

C10_StagedOnly ==
  (ctx \in {"local", "localLegacy"} /\ repo.staged # {}) =>
    /\ outcome = "returned" =>
         /\ result.changedFiles = Sorted(repo.staged)
         /\ result.diff = CachedDiff
         /\ SeqToSet(extractFilesFromDiff(result.diff)) = repo.staged
         /\ \A n \in 1..Len(result.diff) : result.diff[n] # S_unstagedMark
    /\ \A n \in Ran("diff") : cmdLog[n].arg = A_cached
    /\ outcome = "threw" => error.kind = "stagedEmpty"

C10_Witness ==
  /\ ctx = "local" /\ outcome = "returned"
  /\ repo.staged = {P_a} /\ repo.unstaged = {P_a, P_b} /\ repo.untracked = {P_z}
  /\ result.changedFiles = <<P_a>>

\* C11: in local context with nothing staged, nothing unstaged and nothing
\* untracked, the run ends with the resolver's nothing-to-review error and a
\* code other than 0.
C11_NothingToReviewNotSuccess ==
  (ctx \in {"local", "localLegacy"}
     /\ repo.staged = {} /\ repo.unstaged = {} /\ repo.untracked = {}
     /\ exit.done) =>
    /\ outcome = "threw" /\ error.kind = "noChanges"
    /\ exit.code # 0

\* C12: files touched with an empty diff are a legitimate outcome in every
\* context: no resolver raises an error for them, and the command ends the
\* run with code 0 and the notice that no content changed, not with the
\* no-changes notice.
C12_EmptyDiffWithFilesLegitimate ==
  /\ outcome = "threw" => error.kind # "stagedEmpty"
  /\ (outcome = "returned" /\ result.changedFiles # <<>> /\ IsBlankText(result.diff)
        /\ exit.done) => exit = Exited(0, "zeroDiff")

C23_FallbackOnlyWhenShallow ==
  ctx = "pr" =>
    /\ \A n \in Ran("diff") \cup Ran("names") :
         cmdLog[n].arg = TwoDots(OriginRef(repo.target), S_HEAD) => repo.shallow
    /\ \A n \in 1..Len(cmdLog) :
         (~cmdLog[n].ok /\ ~(repo.shallow /\ cmdLog[n].cmd = "diff"
                              /\ cmdLog[n].arg = ThreeDots(OriginRef(repo.target), S_HEAD))) =>
           (n = Len(cmdLog) /\ outcome = "threw")

\* The lines of a diff text at which a file section opens: a 'diff --git'
\* header, or the '--- /dev/null' line of a section written without one.
SectionStarts(text) ==
  {n \in 1..Len(text) :
     \/ StartsWith(text[n], S_diffGitA)
     \/ /\ text[n] = S_devNull
        /\ n = 1 \/ ~StartsWith(text[n - 1], S_diffGitA)}

\* The path the section opened at line n is about.
SectionPath(text, n) ==
  IF StartsWith(text[n], S_diffGitA) THEN HeaderPathB(text[n])
  ELSE IF n < Len(text) /\ StartsWith(text[n + 1], S_plusPath)
    THEN SubSeq(text[n + 1], Len(S_plusPath) + 1, Len(text[n + 1]))
  ELSE <<>>

\* C25: a resolver's result with a non-empty diff text has exactly one file
\* section per path of changedFiles, and no section of any other path.
C25_ChangedFilesMatchSections ==
  (outcome = "returned" /\ ~IsBlankText(result.diff)) =>
    /\ \A p \in SeqToSet(result.changedFiles) :
         Cardinality({n \in SectionStarts(result.diff) : SectionPath(result.diff, n) = p}) = 1
    /\ \A n \in SectionStarts(result.diff) :
         SectionPath(result.diff, n) \in SeqToSet(result.changedFiles)

\* ----------------------------------------------------- claims on the command
\* The run ended on a required setting or credential that is missing.
ConfigurationError ==
  exit.done /\ exit.said \in {"noProvider", "uncaughtSetting", "uncaughtSyncCredentials"}

\* C24: a run that ends on a missing setting or credential has begun no diff
\* acquisition and no rule evaluation.
C24_ConfigurationErrorBeforeWork ==
  ConfigurationError => work \cap {"diff", "evaluate"} = {}

\* ------------------------------------------------- claims on the provider call
\* The call is in flight: the process lives, and fetch or the reading of the
\* body has not ended.
InFlight == alive /\ fetchState \in {"pending", "reading"}

\* C22: the call's own cutoff comes before the rule's timeout (its timer
\* never fires at or after EXPERT_TIMEOUT), and every call that the timeout
\* race abandoned while it was in flight ends.
C22_CutoffEndsAbandonedCalls ==
  /\ [](abortTimer = "fired" => cNow < EXPERT_TIMEOUT)
  /\ (cRace = "timeout" /\ InFlight) ~> ~InFlight

\* ------------------------------------------------ claims on the diff functions
\* The sections of the diff whose path is in the list, in the diff's order.
WantedSections(sections, files) ==
  SelectSeq(sections, LAMBDA sec : sec.path \in SeqToSet(files))

\* The hunks of the diff, over all its sections.
HunksOf(sections) == Flatten([k \in 1..Len(sections) |-> sections[k].hunks])

HasChange(hunk) == \E j \in 2..Len(hunk) : Head(hunk[j]) \in {"+", "-"}

\* C15: filterDiffByFiles(d, S) is made of exactly the file sections of d
\* whose path is in S, whole and in d's order, and the files listed from it
\* are those sections' paths; with S empty it is the empty diff and no file.
C15_FilterKeepsWantedSections ==
  filterCall.called =>
    /\ filterCall.diff = DiffText(WantedSections(given, filterCall.files))
    /\ filterCall.listed = PathsOf(WantedSections(given, filterCall.files))

\* C16: filtering a diff by all the paths in it (the paths of its sections,
\* or the paths extractFilesFromDiff lists) gives back the diff unchanged.
C16_FilterByAllPathsIsIdentity ==
  (/\ filterCall.called
   /\ \/ filterCall.files = PathsOf(given)
      \/ filterCall.files = extractFilesFromDiff(DiffText(given))) =>
    filterCall.diff = DiffText(given)

\* C17: for context budgets c1 <= c2, the slim diff for c2 has at least as
\* many lines as the slim diff for c1 of the same diff.
C17_SlimMonotoneInContext ==
  \A c1, c2 \in 0..MaxContext :
    (c1 <= c2 /\ slims[c1].done /\ slims[c2].done) =>
      Len(slims[c1].diff) <= Len(slims[c2].diff)

\* The smallest and the largest budget applied to one diff, the larger giving
\* more lines.
C17_Witness ==
  /\ slims[0].done /\ slims[MaxContext].done
  /\ Len(slims[0].diff) < Len(slims[MaxContext].diff)

\* C18: whatever the context budget, the slim diff has no trace of a hunk
\* without an added or removed line: it has as many hunk headers as the diff
\* has hunks with a change, and no body line of a hunk without one.
C18_ContextOnlyHunkRemoved ==
  \A c \in 0..MaxContext :
    slims[c].done =>
      /\ Cardinality({j \in 1..Len(slims[c].diff) : StartsWith(slims[c].diff[j], S_at)})
           = Cardinality({n \in 1..Len(HunksOf(given)) : HasChange(HunksOf(given)[n])})
      /\ \A n \in 1..Len(HunksOf(given)) :
           ~HasChange(HunksOf(given)[n]) =>
             \A j \in 1..Len(slims[c].diff) :
               slims[c].diff[j] \notin SeqToSet(Tail(HunksOf(given)[n]))

\* A diff with a context-only hunk next to a hunk with changes, slimmed with
\* the largest budget: the other hunk is still there.
C18_Witness ==
  /\ slims[MaxContext].done
  /\ \E n \in 1..Len(HunksOf(given)) : ~HasChange(HunksOf(given)[n])
  /\ \E j \in 1..Len(slims[MaxContext].diff) : StartsWith(slims[MaxContext].diff[j], S_at)

AllHunksDropped(sec) ==
  sec.hunks # <<>> /\ \A j \in 1..Len(sec.hunks) : ~HasChange(sec.hunks[j])

\* C26: the slim diff holds no file header and no metadata line of a file
\* section all of whose hunks were dropped.
C26_DroppedSectionLeavesNothing ==
  \A c \in 0..MaxContext :
    slims[c].done =>
      \A k \in 1..Len(given) :
        AllHunksDropped(given[k]) =>
          \A n \in 1..Len(slims[c].diff) :
            slims[c].diff[n] \notin {HeaderLine(given[k].path), S_minusA \o given[k].path,
                                     S_plusB \o given[k].path}

\* The lines under each hunk header of a diff text, hunk by hunk.
RECURSIVE HunkBodies(_, _)
HunkBodies(text, i) ==
  IF i > Len(text) THEN <<>>
  ELSE IF StartsWith(text[i], S_at)
    THEN LET ends == {n \in (i + 1)..Len(text) :
                        StartsWith(text[n], S_at) \/ StartsWith(text[n], S_diffGit)}
             e == IF ends = {} THEN Len(text) + 1
                  ELSE CHOOSE n \in ends : \A m \in ends : n <= m
         IN <<SubSeq(text, i + 1, e - 1)>> \o HunkBodies(text, e)
  ELSE HunkBodies(text, i + 1)

\* The indices of a hunk's lines that are Added or Removed, and those within
\* c of one of them.
ChangedAt(body) == {j \in 1..Len(body) : body[j] # <<>> /\ Head(body[j]) \in {"+", "-"}}

NearChange(body, c) ==
  {i \in 1..Len(body) : \E j \in ChangedAt(body) : i - j <= c /\ j - i <= c}

\* The lines of body at the indices ix, in their order.
LinesAt(body, ix) ==
  [n \in 1..Cardinality(ix) |->
     body[CHOOSE i \in ix : Cardinality({m \in ix : m < i}) = n - 1]]

\* The hunks of the diff as the scan reads them (the lines from a hunk header
\* up to the next hunk or file header) that hold a change, in their order.
ChangedHunks(sections) ==
  SelectSeq(HunkBodies(DiffText(sections), 1), LAMBDA body : ChangedAt(body) # {})

\* C27: for every budget, the lines the slim diff holds under its hunk
\* headers are, hunk by hunk for the hunks with a change, exactly the lines
\* within the budget of an Added or Removed line, in their original order.
C27_RetainedLinesAreNearChanges ==
  \A c \in 0..MaxContext :
    slims[c].done =>
      HunkBodies(slims[c].diff, 1) =
        [k \in 1..Len(ChangedHunks(given)) |->
           LinesAt(ChangedHunks(given)[k], NearChange(ChangedHunks(given)[k], c))]

\* Budget 0 on a hunk with context between its two changes: both changes
\* are retained and nothing else.
C27_Witness ==
  /\ slims[0].done /\ slims[1].done
  /\ \E k \in 1..Len(ChangedHunks(given)) : ChangedHunks(given)[k] = Tail(HunkTwo)
  /\ \E k \in 1..Len(HunkBodies(slims[0].diff, 1)) :
       HunkBodies(slims[0].diff, 1)[k] = <<S_minus, S_plus>>

\* The hunk header lines of a diff text, in their order; the k-th goes with
\* the k-th of HunkBodies.
HunkHeaders(text) == SelectSeq(text, LAMBDA l : StartsWith(l, S_at))

\* The n-th smallest member of a set of indices.
NthOf(ix, n) == CHOOSE i \in ix : Cardinality({m \in ix : m < i}) = n - 1

\* Lines of the old side (Context or Removed) and of the new side (Context
\* or Added) among the indices ix of a hunk.
OldSide(body, ix) == {j \in ix : body[j] = <<>> \/ Head(body[j]) # "+"}
NewSide(body, ix) == {j \in ix : body[j] = <<>> \/ Head(body[j]) # "-"}

\* The header the claim gives a hunk slimmed with budget c.
ClaimedHeader(header, body, c) ==
  LET kept == NearChange(body, c)
      before == 1..(NthOf(kept, 1) - 1)
  IN S_atMinus
       \o NumberString(HunkHeaderMatch(header).oldStart + Cardinality(OldSide(body, before)))
       \o <<",">> \o NumberString(Cardinality(OldSide(body, kept)))
       \o S_spPlus
       \o NumberString(HunkHeaderMatch(header).newStart + Cardinality(NewSide(body, before)))
       \o <<",">> \o NumberString(Cardinality(NewSide(body, kept)))
       \o S_spAt \o HunkHeaderMatch(header).hunkTitle

\* The positions, among the hunks of the diff, of those that hold a change.
ChangedPositions(sections) ==
  {k \in 1..Len(HunkBodies(DiffText(sections), 1)) :
     ChangedAt(HunkBodies(DiffText(sections), 1)[k]) # {}}

\* C28: the header of every surviving hunk starts each side at the hunk's
\* start plus the lines of that side before the first retained line, and
\* counts the retained lines of that side.
C28_HeaderRecomputed ==
  \A c \in 0..MaxContext :
    slims[c].done =>
      HunkHeaders(slims[c].diff) =
        [n \in 1..Cardinality(ChangedPositions(given)) |->
           ClaimedHeader(HunkHeaders(DiffText(given))[NthOf(ChangedPositions(given), n)],
                         HunkBodies(DiffText(given), 1)[NthOf(ChangedPositions(given), n)],
                         c)]

\* Budget 1 on the hunk of two changes inside two context lines on either
\* side: one line of each side is skipped and three of each side are left.
C28_Witness ==
  /\ slims[1].done
  /\ \E k \in 1..Len(HunksOf(given)) : HunksOf(given)[k] = HunkChange
  /\ \E n \in 1..Len(slims[1].diff) :
       slims[1].diff[n] = S_atMinus \o <<"2", ",", "3">> \o S_spPlus \o <<"2", ",", "3">> \o S_spAt

\* C29: the lines under every hunk header of the slim diff are one
\* contiguous run of lines of the hunk they come from, so that the header's
\* start and the position under it give each line its number in the input.
C29_EmittedHunksContiguous ==
  \A c \in 0..MaxContext :
    slims[c].done =>
      /\ Len(HunkBodies(slims[c].diff, 1)) = Cardinality(ChangedPositions(given))
      /\ \A n \in 1..Len(HunkBodies(slims[c].diff, 1)) :
           LET body == HunkBodies(DiffText(given), 1)[NthOf(ChangedPositions(given), n)]
           IN \E a \in 1..Len(body), b \in 1..Len(body) :
                HunkBodies(slims[c].diff, 1)[n] = SubSeq(body, a, b)

\* C30: slimming a slim diff again with the budget it was made with returns
\* it unchanged.
C30_SlimIsIdempotent ==
  reslim.called => reslim.diff = slims[reslim.contextLines].diff

\* A slim diff that lost lines of its input and kept two hunks, slimmed again.
C30_Witness ==
  /\ reslim.called
  /\ Len(HunkHeaders(reslim.diff)) >= 2
  /\ Len(reslim.diff) < Len(DiffText(given))

====
